---- MODULE Spec2Model ----
(***************************************************************************)
(* Cooperative cancellation tokens of imazen/enough: flag-backed stoppers, *)
(* the OrStop and WithTimeout combinators, the enough-std                  *)
(* CancellationToken (flag pointer plus optional deadline), TreeStopper    *)
(* nodes, and the reference-counted source/token handles of enough-ffi.    *)
(*                                                                         *)
(* Tokens live in `heap`, a sequence of records; an operand of a           *)
(* combinator is the index of an earlier entry (0 is Never / None / null). *)
(* A clone of an Arc-backed value is the same index.  check() and          *)
(* should_stop() are evaluated over a memory view, so that the sequence of *)
(* atomic loads a call makes can be followed one load at a time.           *)
(***************************************************************************)
EXTENDS Integers, Sequences, FiniteSets, TLC

\* ---------------------------------------------------------------- bounds
MaxTok == 2          \* tokens constructed in a run, besides the first Stopper
MaxTime == 1         \* the clock runs 0..MaxTime
MaxTree == 4         \* tree nodes in the tree-only specification
MaxThreads == 2      \* threads that call cancel() and check() concurrently
MaxCalls == 2        \* cancel() calls made on one flag
MaxWrites == 2       \* stores made to the data word beside a flag
MaxItems == 3        \* items of the parallel loop
MaxChild == 3        \* values built beside the source in the flat-child specification
MaxHandles == 3      \* clones and tokens made of one Arc'ed flag, besides the first value
MaxGuards == 3       \* CancelGuards made in a run
MaxViews == 2        \* FfiCancellationTokenViews made in a run

BarrierParties == 2  \* Barrier::new(2)

NoDeadline == -1     \* Option<Instant>::None of CancellationToken.deadline
Instants == 0..(MaxTime + 1)
Durations == 0..(MaxTime + 1)

VARIABLES
    now,        \* Instant::now()
    heap,       \* the tokens constructed so far
    source,     \* the FFI source handle: "none" | "live" | "destroyed"
    state,      \* the CancellationState behind the FFI source's Arc
    called,     \* enough_cancellation_cancel was called on the live source (history)
    dropped,    \* heap indices of FFI token handles that were destroyed
    ret,        \* the last call of the C API: function, argument, returned value
    thr,        \* per thread: the call it is inside and the loads it has made
    ncancel,    \* per heap entry: cancel() calls made on it (history)
    fired,      \* invocations of the CallbackCancellation callback
    mem,        \* weak memory: the stores made to a data word and to a flag
    view,       \* weak memory: what each thread has observed of those stores
    loop,       \* the parallel loop of parallel_iter_cancelled
    gone,       \* heap indices of values that were dropped or moved away (dangling)
    seen,       \* what a reader has observed of each token (history)
    resets,     \* heap indices of the sources reset() was called on (history)
    handles,    \* the values that share an Arc'ed flag: clones and tokens
    arc,        \* per heap entry: the strong count of its Arc (0: freed)
    guards,     \* the CancelGuards made so far
    views,      \* the FfiCancellationTokenViews made so far
    dec,        \* the MockDecoder::decode call in progress
    timers      \* the threads spawned by cancel_after

tokVars == <<now, heap>>
ffiVars == <<source, state, called, dropped>>
thrVars == <<thr, ncancel, fired>>
memVars == <<mem, view>>
shareVars == <<handles, arc>>
coreVars == <<ffiVars, ret, thrVars, memVars, loop>>
jobVars == <<dec, timers>>
auxVars == <<gone, seen, resets, shareVars, guards, views, jobVars>>
bgVars == <<thrVars, memVars, loop, auxVars>>
conVars == <<ret, bgVars>>
vars == <<now, heap, source, state, called, dropped, ret, thr, ncancel, fired, mem, view, loop,
          gone, seen, resets, handles, arc, guards, views, dec, timers>>

Min(a, b) == IF a <= b THEN a ELSE b

\* ----------------------------------------------------------- heap entries
\* kind: "flag"    Stopper / AtomicStop / ArcStop / SyncStop / CancellationSource
\*       "or"      OrStop { a, b }
\*       "timeout" WithTimeout { inner: a, deadline: dl }
\*       "ctok"    enough-std CancellationToken { flag: a, deadline: dl }
\*       "tree"    TreeStopper { self_cancelled: flag, parent: a }
\*       "ffitok"  FfiCancellationToken { inner: a } (a = 1: Some(state), 0: None)
\*       "callback" CallbackCancellation { cancelled: flag, callback } and its tokens
\*       "child"   enough-std ChildCancellationSource { own_flag: flag, parent_flags: flags }
\*       "rchild"  enough ChildCancellationSource { self_cancelled: flag, parent: a }
\*       "rtok"    enough ChildCancellationToken { inner: a, deadline: dl }
\* from: the token this one was derived from by adding a timeout (history)
\* arg: the deadline that was passed to CancellationToken::with_deadline (history)
\* flags: the raw flag pointers a flat child copied from its ancestors, nearest first
Entry(k, a, b, dl, from) ==
    [kind |-> k, a |-> a, b |-> b, dl |-> dl, flag |-> FALSE, from |-> from,
     arg |-> NoDeadline, flags |-> <<>>]

Toks == 1..Len(heap)
Composable == {0} \cup {i \in Toks : heap[i].kind # "ffitok"}
KindIs(i, k) == i \in Toks /\ heap[i].kind = k

\* ------------------------------------------------------------ evaluation
\* A result of check(): r is "Ok", "Cancelled", "TimedOut", or "Need" when the
\* evaluation has reached a load that the memory view m has not made yet (then
\* path names the load, val is the value memory holds now and reason is what the
\* caller returns if the load yields true).
Ok == [r |-> "Ok", path |-> <<>>, val |-> FALSE, reason |-> "Ok"]
Err(reason) == [r |-> reason, path |-> <<>>, val |-> FALSE, reason |-> reason]

\* The memory view of a call: atomic = TRUE reads the current state directly;
\* otherwise obs is the set of loads (by path) the call has made so far, all of
\* which returned false (a load that returns true ends the call).
Atomic == [atomic |-> TRUE, obs |-> {}]
View(obs) == [atomic |-> FALSE, obs |-> obs]

\* One load of a boolean (an AtomicBool, or Instant::now() >= deadline): reason is
\* the error the caller returns when the load yields true.
Load(m, path, val, reason) ==
    IF m.atomic
    THEN (IF val THEN Err(reason) ELSE Ok)
    ELSE IF path \in m.obs
         THEN Ok
         ELSE [r |-> "Need", path |-> path, val |-> val, reason |-> reason]

\* Stopper::check / AtomicStop::check / ArcStop::check / SyncStop::check
Stopper_check(m, path, i) == Load(m, path, heap[i].flag, "Cancelled")

\* Stopper::should_stop: the same single load
Stopper_should_stop(m, path, i) == Load(m, path, heap[i].flag, "Stop")

\* An Or that asks its second operand first
OrStop_check_second_first(ra, rb) == IF rb.r # "Ok" THEN rb ELSE ra

\* OrStop::check: self.a.check()?; self.b.check()
OrStop_check(ra, rb) == IF ra.r # "Ok" THEN ra ELSE rb

\* An Or whose should_stop() asks its first operand only
OrStop_should_stop_first_only(sa, sb) == sa

\* OrStop::should_stop: self.a.should_stop() || self.b.should_stop()
OrStop_should_stop(sa, sb) == IF sa.r # "Ok" THEN sa ELSE sb

\* A timeout that compares the clock before asking the inner token
WithTimeout_check_deadline_first(rin, m, path, i) ==
    LET d == Load(m, path, now >= heap[i].dl, "TimedOut")
    IN  IF d.r # "Ok" THEN d ELSE rin

\* A timeout that is not yet passed at the instant of its deadline
WithTimeout_check_after_deadline(rin, m, path, i) ==
    IF rin.r # "Ok" THEN rin ELSE Load(m, path, now > heap[i].dl, "TimedOut")

\* WithTimeout::check: self.inner.check()?; then Instant::now() >= self.deadline
WithTimeout_check(rin, m, path, i) ==
    IF rin.r # "Ok" THEN rin ELSE Load(m, path, now >= heap[i].dl, "TimedOut")

\* A comparison that holds only at the instant of the deadline
WithTimeout_should_stop_at_instant(sin, m, path, i) ==
    IF sin.r # "Ok" THEN sin ELSE Load(m, path, now = heap[i].dl, "Stop")

\* WithTimeout::should_stop: self.inner.should_stop() || Instant::now() >= self.deadline
WithTimeout_should_stop(sin, m, path, i) ==
    IF sin.r # "Ok" THEN sin ELSE Load(m, path, now >= heap[i].dl, "Stop")

\* unsafe { (*flag).load() } through a raw pointer to the flag inside value p: the
\* read is undefined ("UB") once p has been dropped or moved away
LoadPtr(m, path, p, reason) ==
    IF p \in gone THEN Err("UB") ELSE Load(m, path, heap[p].flag, reason)

\* CancellationToken::is_flag_set: a null flag pointer is never set
is_flag_set(m, path, i, reason) ==
    IF heap[i].a = 0 THEN Ok ELSE LoadPtr(m, path, heap[i].a, reason)

\* CancellationToken::is_deadline_passed: None never passes
is_deadline_passed(m, path, i, reason) ==
    IF heap[i].dl = NoDeadline THEN Ok ELSE Load(m, path, now >= heap[i].dl, reason)

\* CancellationToken::check: the flag first, then the deadline
CancellationToken_check(m, path, i) ==
    LET f == is_flag_set(m, path \o <<0>>, i, "Cancelled")
    IN  IF f.r # "Ok" THEN f ELSE is_deadline_passed(m, path \o <<1>>, i, "TimedOut")

\* CancellationToken::is_stopped: is_flag_set() || is_deadline_passed()
CancellationToken_is_stopped(m, path, i) ==
    LET f == is_flag_set(m, path \o <<0>>, i, "Stop")
    IN  IF f.r # "Ok" THEN f ELSE is_deadline_passed(m, path \o <<1>>, i, "Stop")

\* A check that asks the parent before the node's own flag
TreeStopper_check_parent_first(m, path, i, rparent) ==
    LET p == IF heap[i].a = 0 THEN Ok ELSE rparent
    IN  IF p.r # "Ok" THEN p ELSE Load(m, path \o <<0>>, heap[i].flag, "Cancelled")

\* A check that looks at the node's own flag only
TreeStopper_check_own_only(m, path, i, rparent) ==
    Load(m, path \o <<0>>, heap[i].flag, "Cancelled")

\* TreeStopper::check: the node's own flag, then parent.check() (Ok for a root)
TreeStopper_check(m, path, i, rparent) ==
    LET s == Load(m, path \o <<0>>, heap[i].flag, "Cancelled")
    IN  IF s.r # "Ok" THEN s ELSE IF heap[i].a = 0 THEN Ok ELSE rparent

\* An is_cancelled that looks at the node's own flag only
TreeStopper_is_cancelled_own_only(m, path, i, sparent) ==
    Load(m, path \o <<0>>, heap[i].flag, "Stop")

\* TreeStopper::is_cancelled (= should_stop): own flag, then parent.should_stop()
TreeStopper_is_cancelled(m, path, i, sparent) ==
    LET s == Load(m, path \o <<0>>, heap[i].flag, "Stop")
    IN  IF s.r # "Ok" THEN s ELSE IF heap[i].a = 0 THEN Ok ELSE sparent

\* FfiCancellationToken::check: Some(state) if state.is_cancelled() => Cancelled
FfiCancellationToken_check(m, path, i) ==
    IF heap[i].a = 0 THEN Ok ELSE Load(m, path, state.cancelled, "Cancelled")

\* FfiCancellationToken::should_stop: inner.map(|s| s.is_cancelled()).unwrap_or(false)
FfiCancellationToken_should_stop(m, path, i) ==
    IF heap[i].a = 0 THEN Ok ELSE Load(m, path, state.cancelled, "Stop")

\* CallbackCancellationToken::check: one load of the source's flag
CallbackCancellationToken_check(m, path, i) == Load(m, path, heap[i].flag, "Cancelled")

\* ChildCancellationSource::is_cancelled, the loop over self.parent_flags from the
\* k-th pointer on: the first flag that is set ends it
RECURSIVE parent_flags_any(_, _, _, _)
parent_flags_any(m, path, flags, k) ==
    IF k > Len(flags) THEN Ok
    ELSE LET l == LoadPtr(m, path \o <<k>>, flags[k], "Stop")
         IN  IF l.r # "Ok" THEN l ELSE parent_flags_any(m, path, flags, k + 1)

\* An is_self_cancelled that answers for the ancestors too
ChildCancellationSource_is_self_cancelled_any(c) ==
    heap[c].flag \/ \E k \in DOMAIN heap[c].flags : heap[heap[c].flags[k]].flag

\* ChildCancellationSource::is_self_cancelled (enough-std): self.own_flag.load()
ChildCancellationSource_is_self_cancelled(c) == heap[c].flag

\* ChildCancellationSource::is_cancelled (enough-std): own flag, then each parent flag
ChildCancellationSource_is_cancelled(m, path, c) ==
    LET s == Load(m, path \o <<0>>, heap[c].flag, "Stop")
    IN  IF s.r # "Ok" THEN s ELSE parent_flags_any(m, path, heap[c].flags, 1)

\* ChildCancellationSource::is_cancelled (enough, recursive):
\* self_cancelled.load() || parent.is_stopped()
RecChildCancellationSource_is_cancelled(m, path, c, sparent) ==
    LET s == Load(m, path \o <<0>>, heap[c].flag, "Stop")
    IN  IF s.r # "Ok" THEN s ELSE sparent

\* ChildCancellationToken::check (enough, recursive) of a token of source inner
\* with deadline dl: the source's own flag, then parent.check(), then the token's
\* own deadline
RecChildCancellationToken_check(m, path, inner, dl, rparent) ==
    LET s == Load(m, path \o <<0>>, heap[inner].flag, "Cancelled")
    IN  IF s.r # "Ok" THEN s
        ELSE IF rparent.r # "Ok" THEN rparent
        ELSE IF dl = NoDeadline THEN Ok
        ELSE Load(m, path \o <<2>>, now >= dl, "TimedOut")

\* ChildCancellationToken::is_stopped (enough, recursive):
\* self_cancelled.load() || parent.is_stopped() || self.is_timed_out()
RecChildCancellationToken_is_stopped(m, path, inner, dl, sparent) ==
    LET s == Load(m, path \o <<0>>, heap[inner].flag, "Stop")
    IN  IF s.r # "Ok" THEN s
        ELSE IF sparent.r # "Ok" THEN sparent
        ELSE IF dl = NoDeadline THEN Ok
        ELSE Load(m, path \o <<2>>, now >= dl, "Stop")

\* Stop::should_stop, the default method of the trait: self.check().is_err()
Stop_should_stop(r) ==
    IF r.r = "Ok" THEN r
    ELSE IF r.r = "Need" THEN [r EXCEPT !.reason = "Stop"]
    ELSE Err("Stop")

\* check() of heap entry i under memory view m, by dynamic dispatch on its kind
RECURSIVE Check(_, _, _)
Check(i, m, path) ==
    IF i = 0 THEN Ok   \* Never::check
    ELSE CASE heap[i].kind = "flag" -> Stopper_check(m, path, i)
           [] heap[i].kind = "or" ->
                OrStop_check(Check(heap[i].a, m, path \o <<1>>),
                             Check(heap[i].b, m, path \o <<2>>))
           [] heap[i].kind = "timeout" ->
                WithTimeout_check(Check(heap[i].a, m, path \o <<1>>), m, path \o <<0>>, i)
           [] heap[i].kind = "ctok" -> CancellationToken_check(m, path, i)
           [] heap[i].kind = "tree" ->
                TreeStopper_check(m, path, i, Check(heap[i].a, m, path \o <<1>>))
           [] heap[i].kind = "ffitok" -> FfiCancellationToken_check(m, path, i)
           [] heap[i].kind = "callback" -> CallbackCancellationToken_check(m, path, i)
           [] heap[i].kind = "rchild" ->
                RecChildCancellationToken_check(
                    m, path, i, NoDeadline, Check(heap[i].a, m, path \o <<1>>))
           [] heap[i].kind = "rtok" ->
                RecChildCancellationToken_check(
                    m, path, heap[i].a, heap[i].dl,
                    Check(heap[heap[i].a].a, m, path \o <<1>>))

\* should_stop() of heap entry i under memory view m
RECURSIVE ShouldStop(_, _, _)
ShouldStop(i, m, path) ==
    IF i = 0 THEN Ok   \* Never::should_stop
    ELSE CASE heap[i].kind = "flag" -> Stopper_should_stop(m, path, i)
           [] heap[i].kind = "or" ->
                OrStop_should_stop(ShouldStop(heap[i].a, m, path \o <<1>>),
                                   ShouldStop(heap[i].b, m, path \o <<2>>))
           [] heap[i].kind = "timeout" ->
                WithTimeout_should_stop(ShouldStop(heap[i].a, m, path \o <<1>>),
                                        m, path \o <<0>>, i)
           [] heap[i].kind = "ctok" -> CancellationToken_is_stopped(m, path, i)
           [] heap[i].kind = "tree" ->
                TreeStopper_is_cancelled(m, path, i, ShouldStop(heap[i].a, m, path \o <<1>>))
           [] heap[i].kind = "ffitok" -> FfiCancellationToken_should_stop(m, path, i)
           [] heap[i].kind = "callback" ->
                Stop_should_stop(CallbackCancellationToken_check(m, path, i))
           [] heap[i].kind = "child" -> ChildCancellationSource_is_cancelled(m, path, i)
           [] heap[i].kind = "rchild" ->
                RecChildCancellationSource_is_cancelled(
                    m, path, i, ShouldStop(heap[i].a, m, path \o <<1>>))
           [] heap[i].kind = "rtok" ->
                RecChildCancellationToken_is_stopped(
                    m, path, heap[i].a, heap[i].dl,
                    ShouldStop(heap[heap[i].a].a, m, path \o <<1>>))

\* The value a call would return if it ran with nothing interleaved
check(i) == Check(i, Atomic, <<>>).r
should_stop(i) == ShouldStop(i, Atomic, <<>>).r = "Stop"

\* The values a build can return from should_stop() / is_cancelled() of entry i: an
\* undefined read may yield either
Outcomes(i) ==
    IF ShouldStop(i, Atomic, <<>>).r = "UB" THEN BOOLEAN ELSE {should_stop(i)}

\* WithTimeout::deadline
WithTimeout_deadline(t) == heap[t].dl

\* WithTimeout::remaining: self.deadline.saturating_duration_since(Instant::now())
WithTimeout_remaining(t) == IF heap[t].dl > now THEN heap[t].dl - now ELSE 0

\* CancellationToken::deadline: Option<Instant>
CancellationToken_deadline(t) == heap[t].dl

\* CancellationToken::remaining: deadline.map(|d| d.saturating_duration_since(now))
CancellationToken_remaining(t) ==
    IF heap[t].dl = NoDeadline THEN NoDeadline
    ELSE IF heap[t].dl > now THEN heap[t].dl - now ELSE 0

\* The loads an uninterrupted check() of entry i makes, in order, from view obs on
RECURSIVE Loads(_, _)
Loads(i, obs) ==
    LET r == Check(i, View(obs), <<>>)
    IN  IF r.r # "Need" THEN <<>>
        ELSE IF r.val THEN <<r.path>>
        ELSE <<r.path>> \o Loads(i, obs \cup {r.path})

\* ------------------------------------------------------------- the clock
\* Time passes: Instant::now() is monotonic
Tick ==
    /\ now < MaxTime
    /\ now' = now + 1
    /\ UNCHANGED <<heap, ffiVars, conVars>>

\* ---------------------------------------------------------- constructors
\* A run builds either Rust tokens or C handles on top of the first Stopper
RustSide ==
    /\ source = "none" /\ ret.fn = "none" /\ views = <<>>
    /\ \A i \in Toks : heap[i].kind # "ffitok"
FfiSide == \A i \in Toks : i = 1 \/ heap[i].kind = "ffitok"

\* A constructor appends its value to the heap; cap bounds the heap.
Alloc(e, cap) ==
    /\ RustSide
    /\ Len(heap) < cap
    /\ heap' = Append(heap, e)
    /\ UNCHANGED <<now, ffiVars, conVars>>

\* Stopper::new (AtomicStop::new, ArcStop::new, CancellationSource::new): unset flag
Stopper_new(cap) == Alloc(Entry("flag", 0, 0, NoDeadline, 0), cap)

\* OrStop::new(a, b)
OrStop_new(a, b, cap) == Alloc(Entry("or", a, b, NoDeadline, 0), cap)

\* WithTimeout::new: deadline = Instant::now() + duration
WithTimeout_new(inner, duration) == Entry("timeout", inner, 0, now + duration, inner)

\* WithTimeout::with_deadline(inner, deadline)
WithTimeout_with_deadline(inner, deadline) == Entry("timeout", inner, 0, deadline, inner)

\* TimeoutExt::with_timeout, on any token (a WithTimeout included: it nests)
with_timeout(i, duration, cap) ==
    /\ now + duration \in Instants
    /\ Alloc(WithTimeout_new(i, duration), cap)

\* TimeoutExt::with_deadline, on any token
with_deadline(i, deadline, cap) == Alloc(WithTimeout_with_deadline(i, deadline), cap)

\* A tighten that keeps the later of the two deadlines
WithTimeout_tighten_deadline_latest(w, deadline) ==
    Entry("timeout", heap[w].a, 0, IF heap[w].dl >= deadline THEN heap[w].dl ELSE deadline, w)

\* WithTimeout::tighten_deadline: the same inner, the earlier of the two deadlines
WithTimeout_tighten_deadline(w, deadline) ==
    Entry("timeout", heap[w].a, 0, Min(heap[w].dl, deadline), w)

\* WithTimeout::tighten: new_deadline = Instant::now() + duration
tighten(w, duration, cap) ==
    /\ now + duration \in Instants
    /\ Alloc(WithTimeout_tighten_deadline(w, now + duration), cap)

\* WithTimeout::tighten_deadline as a step
tighten_deadline(w, deadline, cap) == Alloc(WithTimeout_tighten_deadline(w, deadline), cap)

\* A token() whose token is born with a deadline that has already passed
CancellationSource_token_expired(f, cap) == Alloc(Entry("ctok", f, 0, 0, 0), cap)

\* CancellationSource::token -> CancellationToken::from_source: no deadline
CancellationSource_token(f, cap) == Alloc(Entry("ctok", f, 0, NoDeadline, 0), cap)

\* A with_deadline that replaces the existing deadline
CancellationToken_with_deadline_replace(t, new_deadline) ==
    [Entry("ctok", heap[t].a, 0, new_deadline, t) EXCEPT !.arg = new_deadline]

\* CancellationToken::with_deadline: the sooner of the existing and the new deadline
CancellationToken_with_deadline(t, new_deadline) ==
    [Entry("ctok", heap[t].a, 0,
           IF heap[t].dl = NoDeadline THEN new_deadline ELSE Min(heap[t].dl, new_deadline),
           t) EXCEPT !.arg = new_deadline]

\* CancellationToken::with_deadline as a step
ctok_with_deadline(t, new_deadline, cap) ==
    Alloc(CancellationToken_with_deadline(t, new_deadline), cap)

\* CancellationToken::with_timeout: self.with_deadline(Instant::now() + duration)
ctok_with_timeout(t, duration, cap) ==
    /\ now + duration \in Instants
    /\ Alloc(CancellationToken_with_deadline(t, now + duration), cap)

\* TreeStopper::new: a root, parent None
TreeStopper_new(cap) == Alloc(Entry("tree", 0, 0, NoDeadline, 0), cap)

\* A constructor whose new node is its own parent
TreeStopper_with_parent_self(p, cap) ==
    Alloc(Entry("tree", Len(heap) + 1, 0, NoDeadline, 0), cap)

\* TreeStopper::with_parent(parent): parent is any Stop, boxed
TreeStopper_with_parent(p, cap) == Alloc(Entry("tree", p, 0, NoDeadline, 0), cap)

\* TreeStopper::child: TreeStopper::with_parent(self.clone())
TreeStopper_child(n, cap) == TreeStopper_with_parent(n, cap)

\* ------------------------------------------------------------------ cancel
\* A store that flips the flag instead of setting it
StoreToggle(i) == [heap EXCEPT ![i].flag = ~@]

\* AtomicBool::store(true) on the flag of entry i
StoreTrue(i) == [heap EXCEPT ![i].flag = TRUE]

\* Stopper::cancel (AtomicStop, ArcStop, SyncStop, CancellationSource alike)
Stopper_cancel(i) ==
    /\ heap' = StoreTrue(i)
    /\ UNCHANGED <<now, ffiVars, conVars>>

\* A cancel that also sets the parent's flag
TreeStopper_cancel_with_parent(n) ==
    /\ heap' = [i \in DOMAIN heap |->
                  IF i = n \/ (i = heap[n].a /\ heap[i].kind \in {"flag", "tree"})
                  THEN [heap[i] EXCEPT !.flag = TRUE] ELSE heap[i]]
    /\ UNCHANGED <<now, ffiVars, conVars>>

\* TreeStopper::cancel: self.inner.self_cancelled.store(true)
TreeStopper_cancel(n) ==
    /\ heap' = StoreTrue(n)
    /\ UNCHANGED <<now, ffiVars, conVars>>

\* ------------------------------------------------------------ the C API
\* Arc<CancellationState>::drop: the count goes down, the last drop frees the state
ArcDrop(st) ==
    [st EXCEPT !.strong = @ - 1, !.alloc = IF st.strong = 1 THEN "freed" ELSE @]

\* Arc::clone: one more strong reference
ArcClone(st) == [st EXCEPT !.strong = @ + 1]

\* CancellationState::cancel: self.cancelled.store(true)
CancellationState_cancel(st) == [st EXCEPT !.cancelled = TRUE]

\* A token that shares the state without taking a reference of its own
FfiCancellationSource_create_token_no_clone(st) == st

\* FfiCancellationSource::create_token: Some(Arc::clone(&self.inner))
FfiCancellationSource_create_token(st) == ArcClone(st)

\* A call of the C API returns: what was called, on what, and the value returned
Returned(fn, arg, tok, val) == [fn |-> fn, arg |-> arg, tok |-> tok, val |-> val]

\* A C bool
Bool(b) == IF b THEN "true" ELSE "false"

\* enough_cancellation_create: Box::new(FfiCancellationSource::new())
enough_cancellation_create ==
    /\ source = "none"
    /\ FfiSide
    /\ source' = "live"
    /\ state' = [cancelled |-> FALSE, strong |-> 1, alloc |-> "live"]
    /\ ret' = Returned("enough_cancellation_create", "none", 0, "handle")
    /\ UNCHANGED <<tokVars, called, dropped, bgVars>>

\* enough_cancellation_cancel: a no-op on null, else source.cancel()
enough_cancellation_cancel(ptr) ==
    /\ ret' = Returned("enough_cancellation_cancel", ptr, 0, "void")
    /\ \/ /\ ptr = "null"
          /\ UNCHANGED <<tokVars, ffiVars, bgVars>>
       \/ /\ ptr = "source"
          /\ source = "live"
          /\ state' = CancellationState_cancel(state)
          /\ called' = TRUE
          /\ UNCHANGED <<tokVars, source, dropped, bgVars>>

\* An is_cancelled that reads the state whatever the pointer
enough_cancellation_is_cancelled_deref(ptr) ==
    /\ ptr = "source" => source = "live"
    /\ ret' = Returned("enough_cancellation_is_cancelled", ptr, 0, Bool(state.cancelled))
    /\ UNCHANGED <<tokVars, ffiVars, bgVars>>

\* enough_cancellation_is_cancelled: false on null, else one load
enough_cancellation_is_cancelled(ptr) ==
    /\ ptr = "source" => source = "live"
    /\ ret' = Returned("enough_cancellation_is_cancelled", ptr, 0,
                       Bool(ptr # "null" /\ state.cancelled))
    /\ UNCHANGED <<tokVars, ffiVars, bgVars>>

\* A destroy that clears the flag before dropping the source
enough_cancellation_destroy_clears(ptr) ==
    /\ ret' = Returned("enough_cancellation_destroy", ptr, 0, "void")
    /\ \/ /\ ptr = "null"
          /\ UNCHANGED <<tokVars, ffiVars, bgVars>>
       \/ /\ ptr = "source"
          /\ source = "live"
          /\ source' = "destroyed"
          /\ state' = ArcDrop([state EXCEPT !.cancelled = FALSE])
          /\ UNCHANGED <<tokVars, called, dropped, bgVars>>

\* enough_cancellation_destroy: a no-op on null, else drop(Box::from_raw(ptr))
enough_cancellation_destroy(ptr) ==
    /\ ret' = Returned("enough_cancellation_destroy", ptr, 0, "void")
    /\ \/ /\ ptr = "null"
          /\ UNCHANGED <<tokVars, ffiVars, bgVars>>
       \/ /\ ptr = "source"
          /\ source = "live"
          /\ source' = "destroyed"
          /\ state' = ArcDrop(state)
          /\ UNCHANGED <<tokVars, called, dropped, bgVars>>

\* enough_token_create: a never token for null, else source.create_token()
enough_token_create(ptr, cap) ==
    /\ FfiSide
    /\ Len(heap) < cap
    /\ \/ /\ ptr = "null"
          /\ heap' = Append(heap, Entry("ffitok", 0, 0, NoDeadline, 0))
          /\ UNCHANGED state
       \/ /\ ptr = "source"
          /\ source = "live"
          /\ heap' = Append(heap, Entry("ffitok", 1, 0, NoDeadline, 0))
          /\ state' = FfiCancellationSource_create_token(state)
    /\ ret' = Returned("enough_token_create", ptr, Len(heap) + 1, "handle")
    /\ UNCHANGED <<now, source, called, dropped, bgVars>>

\* enough_token_create_never: Box::new(FfiCancellationToken::never())
enough_token_create_never(cap) ==
    /\ FfiSide
    /\ Len(heap) < cap
    /\ heap' = Append(heap, Entry("ffitok", 0, 0, NoDeadline, 0))
    /\ ret' = Returned("enough_token_create_never", "none", Len(heap) + 1, "handle")
    /\ UNCHANGED <<now, ffiVars, bgVars>>

\* enough_token_is_cancelled: false on null, else token.should_stop()
enough_token_is_cancelled(tok) ==
    /\ tok # 0 => (KindIs(tok, "ffitok") /\ tok \notin dropped)
    /\ ret' = Returned("enough_token_is_cancelled", IF tok = 0 THEN "null" ELSE "token", tok,
                       Bool(tok # 0 /\ should_stop(tok)))
    /\ UNCHANGED <<tokVars, ffiVars, bgVars>>

\* A destroy that cancels the shared state as it drops the token
enough_token_destroy_cancelling(tok) ==
    /\ ret' = Returned("enough_token_destroy", IF tok = 0 THEN "null" ELSE "token", tok, "void")
    /\ \/ /\ tok = 0
          /\ UNCHANGED <<tokVars, ffiVars, bgVars>>
       \/ /\ KindIs(tok, "ffitok")
          /\ tok \notin dropped
          /\ dropped' = dropped \cup {tok}
          /\ state' = IF heap[tok].a = 1
                      THEN ArcDrop(CancellationState_cancel(state)) ELSE state
          /\ UNCHANGED <<tokVars, source, called, bgVars>>

\* enough_token_destroy: a no-op on null, else drop(Box::from_raw(token)); the
\* handle is destroyed at most once (a second destroy is undefined behaviour)
enough_token_destroy(tok) ==
    /\ ret' = Returned("enough_token_destroy", IF tok = 0 THEN "null" ELSE "token", tok, "void")
    /\ \/ /\ tok = 0
          /\ UNCHANGED <<tokVars, ffiVars, bgVars>>
       \/ /\ KindIs(tok, "ffitok")
          /\ tok \notin dropped
          /\ dropped' = dropped \cup {tok}
          /\ state' = IF heap[tok].a = 1 THEN ArcDrop(state) ELSE state
          /\ UNCHANGED <<tokVars, source, called, bgVars>>

\* ------------------------------------------------------------------ checks
\* A caller calls check() and should_stop() on a token that has not been
\* destroyed: loads only, nothing is written.
Poll(i) ==
    /\ i \notin dropped
    /\ check(i) \in {"Ok", "Cancelled", "TimedOut"}
    /\ should_stop(i) \in BOOLEAN
    /\ UNCHANGED vars

\* ----------------------------------------------------------------- threads
Threads == 1..MaxThreads

\* A thread that is inside no call; got is what its last check() returned
Idle == [pc |-> "idle", tok |-> 0, obs |-> {}, old |-> FALSE, got |-> "none"]

\* Thread t calls cancel() on flag i: one atomic store
cancel_call(t, i) ==
    /\ thr[t].pc = "idle"
    /\ KindIs(i, "flag")
    /\ ncancel[i] < MaxCalls
    /\ heap' = StoreTrue(i)
    /\ ncancel' = [ncancel EXCEPT ![i] = @ + 1]
    /\ UNCHANGED <<now, ffiVars, ret, auxVars, thr, fired, memVars, loop>>

\* CallbackCancellation::cancel, first half: self.cancelled.swap(true, AcqRel)
CallbackCancellation_cancel_swap(t, i) ==
    /\ thr[t].pc = "idle"
    /\ KindIs(i, "callback")
    /\ ncancel[i] < MaxCalls
    /\ heap' = StoreTrue(i)
    /\ thr' = [thr EXCEPT ![t] = [Idle EXCEPT !.pc = "swapped", !.tok = i,
                                                !.old = heap[i].flag, !.got = thr[t].got]]
    /\ ncancel' = [ncancel EXCEPT ![i] = @ + 1]
    /\ UNCHANGED <<now, ffiVars, ret, auxVars, fired, memVars, loop>>

\* A cancel that invokes the callback whatever the swap returned
CallbackCancellation_cancel_invoke_always(t) ==
    /\ thr[t].pc = "swapped"
    /\ fired' = fired + 1
    /\ thr' = [thr EXCEPT ![t] = [Idle EXCEPT !.got = thr[t].got]]
    /\ UNCHANGED <<tokVars, ffiVars, ret, auxVars, ncancel, memVars, loop>>

\* CallbackCancellation::cancel, second half: if the swap returned false,
\* (self.callback)()
CallbackCancellation_cancel_invoke(t) ==
    /\ thr[t].pc = "swapped"
    /\ fired' = IF thr[t].old THEN fired ELSE fired + 1
    /\ thr' = [thr EXCEPT ![t] = [Idle EXCEPT !.got = thr[t].got]]
    /\ UNCHANGED <<tokVars, ffiVars, ret, auxVars, ncancel, memVars, loop>>

\* Thread t calls check() on token i
check_call(t, i) ==
    /\ thr[t].pc = "idle"
    /\ thr' = [thr EXCEPT ![t] = [Idle EXCEPT !.pc = "check", !.tok = i]]
    /\ UNCHANGED <<tokVars, ffiVars, ret, auxVars, ncancel, fired, memVars, loop>>

\* Thread t makes the next load of its check(): a load that yields true ends the
\* call with that load's reason, and the call returns Ok after its last load
check_load(t) ==
    /\ thr[t].pc = "check"
    /\ LET r == Check(thr[t].tok, View(thr[t].obs), <<>>)
       IN  thr' = [thr EXCEPT ![t] =
                      IF r.r = "Need" /\ ~r.val
                      THEN [@ EXCEPT !.obs = @ \cup {r.path}]
                      ELSE [Idle EXCEPT !.got = IF r.r = "Need" THEN r.reason ELSE r.r]]
    /\ UNCHANGED <<tokVars, ffiVars, ret, auxVars, ncancel, fired, memVars, loop>>

\* ------------------------------------------------------------- weak memory
\* A data word and a cancellation flag under the C++11 orderings the code uses.
\* The stores to one location are totally ordered; mem.data is the number of
\* stores made to the data word (the k-th store writes k), mem.flag the sequence
\* of store(true) made to the flag, mem.ord the ordering of the flag's variant:
\* "Sync" (store Release, load Acquire: SyncStop, SyncStopper, CancellationSource)
\* or "Relaxed" (Stopper, AtomicStop, ArcStop, TreeStopper, CancellationState).
\* A thread may read any store that is not older than the ones it has observed:
\* view[t].d is the newest data store thread t has observed, view[t].f the
\* store(true) its last load of the flag returned (0: none yet).  One thread
\* produces (stores data, cancels), the others consume (load the flag and data).
Max(a, b) == IF a >= b THEN a ELSE b

\* A thread that has observed nothing
Unseen == [pc |-> "run", d |-> 0, f |-> 0]

Producing(t) == view[t].pc = "produce"

\* store(true, Ordering::Relaxed) publishes nothing but the flag
store_relaxed(t) == 0

\* A Release store that publishes nothing
store_release_nothing(t) == 0

\* store(true, Ordering::Release) publishes what the storing thread has observed
store_release(t) == view[t].d

\* load(Ordering::Relaxed) learns nothing but the flag
load_relaxed(t, msg) == view[t].d

\* load(Ordering::Acquire) of a store learns what that store published
load_acquire(t, msg) == Max(view[t].d, msg.view)

\* data.store(k, Ordering::Relaxed) by the producer
data_store(t) ==
    /\ Producing(t)
    /\ mem.data < MaxWrites
    /\ mem' = [mem EXCEPT !.data = @ + 1]
    /\ view' = [view EXCEPT ![t].d = mem.data + 1]
    /\ UNCHANGED <<tokVars, ffiVars, ret, auxVars, thrVars, loop>>

\* A cancel() that returns without storing
SyncStop_cancel_lost(t) ==
    /\ Producing(t)
    /\ mem.ncall < MaxCalls
    /\ mem' = [mem EXCEPT !.ncall = @ + 1]
    /\ UNCHANGED <<tokVars, ffiVars, ret, auxVars, thrVars, loop, view>>

\* SyncStop::cancel: self.cancelled.store(true, Ordering::Release);
\* Stopper::cancel: the same store with Ordering::Relaxed.  wrote is the data
\* store the cancelling thread had made before the call (history).
SyncStop_cancel(t) ==
    /\ Producing(t)
    /\ mem.ncall < MaxCalls
    /\ mem' = [mem EXCEPT !.ncall = @ + 1,
                          !.flag = Append(@, [wrote |-> view[t].d,
                                              view |-> IF mem.ord = "Sync"
                                                       THEN store_release(t)
                                                       ELSE store_relaxed(t)])]
    /\ view' = [view EXCEPT ![t].f = Len(mem.flag) + 1]
    /\ UNCHANGED <<tokVars, ffiVars, ret, auxVars, thrVars, loop>>

\* SyncStop::should_stop: self.cancelled.load(Ordering::Acquire);
\* Stopper::should_stop: the same load with Ordering::Relaxed.  The load returns
\* the initial false (ts = 0) or the ts-th store(true); a polling thread leaves
\* its loop when the load returns true.
should_stop_load(t, ts) ==
    /\ view[t].pc \in {"run", "polling"}
    /\ ts \in view[t].f..Len(mem.flag)
    /\ view' = [view EXCEPT ![t] =
                  IF ts = 0 THEN @
                  ELSE [pc |-> IF @.pc = "polling" THEN "exited" ELSE @.pc,
                        d |-> IF mem.ord = "Sync" THEN load_acquire(t, mem.flag[ts])
                                                  ELSE load_relaxed(t, mem.flag[ts]),
                        f |-> ts]]
    /\ UNCHANGED <<tokVars, ffiVars, ret, auxVars, thrVars, loop, mem>>

\* data.load(Ordering::Relaxed) by thread t returns the ts-th store
data_load(t, ts) ==
    /\ view[t].pc \in {"run", "exited"}
    /\ ts \in view[t].d..mem.data
    /\ view' = [view EXCEPT ![t].d = ts]
    /\ UNCHANGED <<tokVars, ffiVars, ret, auxVars, thrVars, loop, mem>>

\* Thread t enters `while !token.should_stop() { yield }`
poll_begin(t) ==
    /\ view[t].pc = "run"
    /\ view' = [view EXCEPT ![t].pc = "polling"]
    /\ UNCHANGED <<tokVars, ffiVars, ret, auxVars, thrVars, loop, mem>>

\* -------------------------------------------------------- the parallel loop
\* parallel_iter_cancelled: rayon workers map the items; the first item to swap
\* first_signal waits at the barrier and succeeds without calling check(); a
\* spawned thread waits at the barrier and then cancels the shared Stopper
\* (heap entry 1).  loop.midrun records whether the cancel() store was made
\* while some item had not yet returned.
Items == 1..MaxItems

Resting == [pc |-> "idle", item |-> 0, res |-> "none"]

\* A worker takes an item: first_signal.swap(true, Relaxed) decides its path
worker_take(t, i) ==
    /\ loop.w[t].pc = "idle"
    /\ loop.item[i] = "todo"
    /\ loop' = [loop EXCEPT !.item[i] = "taken",
                            !.first_signal = TRUE,
                            !.w[t] = [pc |-> IF loop.first_signal THEN "check" ELSE "barrier",
                                      item |-> i, res |-> "none"]]
    /\ UNCHANGED <<tokVars, ffiVars, ret, auxVars, thrVars, memVars>>

\* The first item: barrier_for_map.wait() is entered
worker_barrier_wait(t) ==
    /\ loop.w[t].pc = "barrier"
    /\ loop' = [loop EXCEPT !.arrived = @ + 1, !.w[t].pc = "waiting"]
    /\ UNCHANGED <<tokVars, ffiVars, ret, auxVars, thrVars, memVars>>

\* The first item: wait() returns once both parties have arrived; Ok(item * 2)
worker_barrier_pass(t) ==
    /\ loop.w[t].pc = "waiting"
    /\ loop.arrived = BarrierParties
    /\ loop' = [loop EXCEPT !.w[t].pc = "return", !.w[t].res = "Ok"]
    /\ UNCHANGED <<tokVars, ffiVars, ret, auxVars, thrVars, memVars>>

\* Any other item: process_item calls stop.check()?
process_item(t) ==
    /\ loop.w[t].pc = "check"
    /\ loop' = [loop EXCEPT !.w[t].pc = "return", !.w[t].res = check(1)]
    /\ UNCHANGED <<tokVars, ffiVars, ret, auxVars, thrVars, memVars>>

\* The item's result is collected
worker_return(t) ==
    /\ loop.w[t].pc = "return"
    /\ loop' = [loop EXCEPT !.item[loop.w[t].item] = loop.w[t].res, !.w[t] = Resting]
    /\ UNCHANGED <<tokVars, ffiVars, ret, auxVars, thrVars, memVars>>

\* The spawned thread: barrier_clone.wait() is entered
canceller_wait ==
    /\ loop.canc = "start"
    /\ loop' = [loop EXCEPT !.arrived = @ + 1, !.canc = "waiting"]
    /\ UNCHANGED <<tokVars, ffiVars, ret, auxVars, thrVars, memVars>>

\* The spawned thread: wait() returns, then stop_clone.cancel()
canceller_cancel ==
    /\ loop.canc = "waiting"
    /\ loop.arrived = BarrierParties
    /\ heap' = StoreTrue(1)
    /\ loop' = [loop EXCEPT !.canc = "done",
                            !.midrun = \E i \in Items : loop.item[i] \in {"todo", "taken"}]
    /\ UNCHANGED <<now, ffiVars, ret, auxVars, thrVars, memVars>>

\* ------------------------------------------------- flat children (enough-std)
\* A value that has not been dropped or moved away
Live(i) == i \in Toks /\ i \notin gone

\* ChildCancellationSource::new(parent: CancellationToken): the token's flag pointer
\* unless it is null.  a records the token given (history; the struct keeps only
\* the pointer).
ChildCancellationSource_new(parent, cap) ==
    /\ KindIs(parent, "ctok")
    /\ Alloc([Entry("child", parent, 0, NoDeadline, 0) EXCEPT
                 !.flags = IF heap[parent].a = 0 THEN <<>> ELSE <<heap[parent].a>>], cap)

\* A child() that leaves its own flag out of the copied list
ChildCancellationSource_child_skip_self(c, cap) ==
    /\ Live(c)
    /\ Alloc([Entry("child", c, 0, NoDeadline, 0) EXCEPT !.flags = heap[c].flags], cap)

\* ChildCancellationSource::child: &self.own_flag, then a copy of self.parent_flags
ChildCancellationSource_child(c, cap) ==
    /\ Live(c)
    /\ Alloc([Entry("child", c, 0, NoDeadline, 0) EXCEPT !.flags = <<c>> \o heap[c].flags],
             cap)

\* ChildCancellationSource::cancel: self.own_flag.store(true)
ChildCancellationSource_cancel(c) ==
    /\ Live(c)
    /\ heap' = StoreTrue(c)
    /\ UNCHANGED <<now, ffiVars, conVars>>

\* A reset that clears the flags of the ancestors too
StoreFalseChain(i) ==
    [j \in DOMAIN heap |->
        IF j = i \/ \E k \in DOMAIN heap[i].flags : heap[i].flags[k] = j
        THEN [heap[j] EXCEPT !.flag = FALSE] ELSE heap[j]]

\* AtomicBool::store(false) on the flag of entry i
StoreFalse(i) == [heap EXCEPT ![i].flag = FALSE]

\* ChildCancellationSource::reset: self.own_flag.store(false)
ChildCancellationSource_reset(c) ==
    /\ Live(c)
    /\ heap' = StoreFalse(c)
    /\ resets' = resets \cup {c}
    /\ UNCHANGED <<now, coreVars, gone, seen, shareVars, guards, views, jobVars>>

\* The owner drops a source (a CancellationSource or a ChildCancellationSource):
\* the flag inside it is gone; nothing tells the values that point at it
Drop(i) ==
    /\ Live(i)
    /\ heap[i].kind \in {"flag", "child"}
    /\ gone' = gone \cup {i}
    /\ UNCHANGED <<tokVars, coreVars, seen, resets, shareVars, guards, views, jobVars>>

\* The owner moves a ChildCancellationSource (returns it, pushes it into a Vec):
\* the same value at a new address, the old address gone
Move(c, cap) ==
    /\ Live(c)
    /\ heap[c].kind = "child"
    /\ Len(heap) < cap
    /\ heap' = Append(heap, heap[c])
    /\ gone' = gone \cup {c}
    /\ UNCHANGED <<now, coreVars, seen, resets, shareVars, guards, views, jobVars>>

\* A reset that leaves the flag as it is
CancellationSource_reset_keep(f) ==
    /\ Live(f)
    /\ resets' = resets \cup {f}
    /\ UNCHANGED <<tokVars, coreVars, gone, seen, shareVars, guards, views, jobVars>>

\* CancellationSource::reset (enough-std): self.cancelled.store(false)
CancellationSource_reset(f) ==
    /\ Live(f)
    /\ heap' = StoreFalse(f)
    /\ resets' = resets \cup {f}
    /\ UNCHANGED <<now, coreVars, gone, seen, shareVars, guards, views, jobVars>>

\* A reader calls is_stopped() on token t of a source that exists and keeps the
\* answer: stopped, or not stopped after an earlier answer of stopped
Observe(t) ==
    /\ KindIs(t, "ctok")
    /\ Live(heap[t].a)
    /\ seen' = IF should_stop(t)
               THEN [stopped |-> seen.stopped \cup {t}, back |-> seen.back \ {t}]
               ELSE IF t \in seen.stopped
                    THEN [stopped |-> seen.stopped \ {t}, back |-> seen.back \cup {t}]
                    ELSE seen
    /\ UNCHANGED <<tokVars, coreVars, gone, resets, shareVars, guards, views, jobVars>>

\* ------------------------------------------- shared flags: Arc<AtomicBool>
\* A value that holds an Arc to the flag of heap entry `to`.  kind: "Stopper" |
\* "ArcStop" | "ArcToken"; from: the value it was cloned or taken from; born: the
\* flag at the time it was made (from and born are history)
Handle(kind, to, from) ==
    [kind |-> kind, to |-> to, live |-> TRUE, from |-> from, born |-> heap[to].flag]

Handles == 1..Len(handles)
Held(h) == h \in Handles /\ handles[h].live

\* A clone that copies the pointer without counting it
Arc_clone_uncounted(a, i) == a

\* Arc::clone: strong += 1
Arc_clone(a, i) == [a EXCEPT ![i] = @ + 1]

\* Arc::drop: strong -= 1; the allocation is freed when the count reaches 0
Arc_drop(a, i) == [a EXCEPT ![i] = @ - 1]

\* The flag behind the Arc has been freed
Freed(i) == arc[i] <= 0

\* Stopper::should_stop / ArcStop::should_stop / ArcToken::should_stop through
\* value h: self.cancelled.load(); undefined ("UB") once the flag is freed
Shared_should_stop(h) ==
    IF Freed(handles[h].to) THEN "UB" ELSE Bool(heap[handles[h].to].flag)

\* #[derive(Clone)] of Stopper, ArcStop and ArcToken: Arc::clone of the flag
Stopper_clone(h) ==
    /\ Held(h)
    /\ Len(handles) < 1 + MaxHandles
    /\ handles' = Append(handles, Handle(handles[h].kind, handles[h].to, h))
    /\ arc' = Arc_clone(arc, handles[h].to)
    /\ UNCHANGED <<tokVars, coreVars, gone, seen, resets, guards, views, jobVars>>

\* ArcStop::token: ArcToken { cancelled: Arc::clone(&self.cancelled) }
ArcStop_token(h) ==
    /\ Held(h)
    /\ handles[h].kind = "ArcStop"
    /\ Len(handles) < 1 + MaxHandles
    /\ handles' = Append(handles, Handle("ArcToken", handles[h].to, h))
    /\ arc' = Arc_clone(arc, handles[h].to)
    /\ UNCHANGED <<tokVars, coreVars, gone, seen, resets, guards, views, jobVars>>

\* Stopper::cancel / ArcStop::cancel through value h (an ArcToken cannot cancel)
Shared_cancel(h) ==
    /\ Held(h)
    /\ handles[h].kind \in {"Stopper", "ArcStop"}
    /\ heap' = StoreTrue(handles[h].to)
    /\ UNCHANGED <<now, coreVars, auxVars>>

\* The owner drops value h: Arc::drop of the flag
Shared_drop(h) ==
    /\ Held(h)
    /\ handles' = [handles EXCEPT ![h].live = FALSE]
    /\ arc' = Arc_drop(arc, handles[h].to)
    /\ UNCHANGED <<tokVars, coreVars, gone, seen, resets, guards, views, jobVars>>

\* ------------------------------------------------------------ CancelGuard
\* CancelGuard { source: Option<C> } on heap entry src.  source: "Some" | "None";
\* dropped: the guard's drop has run; how: the way it ended (history)
Guards == 1..Len(guards)
ExitPaths == {"scope end", "error return"}

\* A drop that stops the source whether the guard is armed or not
CancelGuard_drop_stops_always(opt) == TRUE

\* Drop for CancelGuard: if let Some(source) = self.source.take() { source.stop() }
CancelGuard_drop_stops(opt) == opt = "Some"

\* CancelGuard::is_armed: self.source.is_some()
CancelGuard_is_armed(g) == guards[g].source = "Some"

\* StopDropRoll::stop_on_drop: CancelGuard::new(self.clone())
stop_on_drop(src) ==
    /\ src \in Toks
    /\ Len(guards) < MaxGuards
    /\ guards' = Append(guards, [src |-> src, source |-> "Some", dropped |-> FALSE,
                                 how |-> "held"])
    /\ UNCHANGED <<tokVars, coreVars, gone, seen, resets, shareVars, views, jobVars>>

\* The guard goes out of scope, at the end of its block or on an early return:
\* Drop::drop runs, and Cancellable::stop is self.cancel() of the source
CancelGuard_drop(g, path) ==
    /\ g \in Guards
    /\ ~guards[g].dropped
    /\ heap' = IF CancelGuard_drop_stops(guards[g].source)
               THEN StoreTrue(guards[g].src) ELSE heap
    /\ guards' = [guards EXCEPT ![g] = [@ EXCEPT !.source = "None", !.dropped = TRUE,
                                                 !.how = path]]
    /\ UNCHANGED <<now, coreVars, gone, seen, resets, shareVars, views, jobVars>>

\* CancelGuard::disarm(mut self): self.source = None, then self is dropped
CancelGuard_disarm(g) ==
    /\ g \in Guards
    /\ ~guards[g].dropped
    /\ heap' = IF CancelGuard_drop_stops("None") THEN StoreTrue(guards[g].src) ELSE heap
    /\ guards' = [guards EXCEPT ![g] = [@ EXCEPT !.source = "None", !.dropped = TRUE,
                                                 !.how = "disarm"]]
    /\ UNCHANGED <<now, coreVars, gone, seen, resets, shareVars, views, jobVars>>

\* ------------------------------------------------------------ token views
\* FfiCancellationTokenView { ptr }: ptr is a token handle, 0 the null pointer;
\* live: the view value is still in scope
Views == 1..Len(views)

\* A view that takes a strong reference to the shared state
FfiCancellationTokenView_counted(st) == ArcClone(st)

\* FfiCancellationTokenView { ptr }: a pointer is stored, the Arc is not touched
FfiCancellationTokenView_of(st) == st

\* FfiCancellationToken::from_ptr, on null or on a token that has not been destroyed
FfiCancellationToken_from_ptr(tok) ==
    /\ FfiSide
    /\ Len(views) < MaxViews
    /\ tok # 0 => (KindIs(tok, "ffitok") /\ tok \notin dropped)
    /\ views' = Append(views, [ptr |-> tok, live |-> TRUE])
    /\ state' = IF tok # 0 /\ heap[tok].a = 1 THEN FfiCancellationTokenView_of(state) ELSE state
    /\ UNCHANGED <<tokVars, source, called, dropped, ret, thrVars, memVars, loop,
                   gone, seen, resets, shareVars, guards, jobVars>>

\* derive(Clone, Copy): a second view of the same pointer
FfiCancellationTokenView_copy(v) ==
    /\ v \in Views
    /\ views[v].live
    /\ Len(views) < MaxViews
    /\ views' = Append(views, [ptr |-> views[v].ptr, live |-> TRUE])
    /\ state' = IF views[v].ptr # 0 /\ heap[views[v].ptr].a = 1
                THEN FfiCancellationTokenView_of(state) ELSE state
    /\ UNCHANGED <<tokVars, source, called, dropped, ret, thrVars, memVars, loop,
                   gone, seen, resets, shareVars, guards, jobVars>>

\* A view goes out of scope: the type has no Drop
FfiCancellationTokenView_drop(v) ==
    /\ v \in Views
    /\ views[v].live
    /\ views' = [views EXCEPT ![v].live = FALSE]
    /\ UNCHANGED <<tokVars, ffiVars, ret, thrVars, memVars, loop,
                   gone, seen, resets, shareVars, guards, jobVars>>

\* FfiCancellationTokenView::should_stop: false on null, else (*self.ptr).should_stop();
\* a view of a destroyed token reads freed memory
FfiCancellationTokenView_should_stop(v) ==
    /\ v \in Views
    /\ views[v].live
    /\ \E val \in IF views[v].ptr = 0 THEN {FALSE}
                  ELSE IF views[v].ptr \in dropped THEN BOOLEAN
                  ELSE {should_stop(views[v].ptr)} :
          ret' = Returned("FfiCancellationTokenView::should_stop", "view", v, Bool(val))
    /\ UNCHANGED <<tokVars, ffiVars, bgVars>>

\* ------------------------------------------------------- threads on a tree
\* A thread that is inside no call on the tree.  History of the call it is in:
\* after, a flag of the node's chain was set when the call started; chain, the
\* nodes of the chain whose flag was set when the call loaded the node's own flag
TreeIdle == [pc |-> "idle", tok |-> 0, obs |-> {}, old |-> FALSE, got |-> "none",
             after |-> FALSE, chain |-> {}]

\* The node and its ancestors, up to the root
RECURSIVE TreeChain(_)
TreeChain(n) == IF n = 0 THEN {} ELSE {n} \cup TreeChain(heap[n].a)

\* The nodes of n's chain whose flag is set now
ChainSet(n) == {a \in TreeChain(n) : heap[a].flag}

\* Thread t calls cancel() on node n: self.inner.self_cancelled.store(true)
TreeStopper_cancel_call(t, n) ==
    /\ thr[t].pc = "idle"
    /\ KindIs(n, "tree")
    /\ heap' = StoreTrue(n)
    /\ UNCHANGED <<now, ffiVars, ret, auxVars, thrVars, memVars, loop>>

\* Thread t calls check() or should_stop() on node n
TreeStopper_check_call(t, n, call) ==
    /\ thr[t].pc = "idle"
    /\ KindIs(n, "tree")
    /\ thr' = [thr EXCEPT ![t] = [TreeIdle EXCEPT !.pc = call, !.tok = n,
                                                    !.after = ChainSet(n) # {}]]
    /\ UNCHANGED <<tokVars, ffiVars, ret, auxVars, ncancel, fired, memVars, loop>>

\* Thread t makes the next load of its call: the node's own flag, then up the
\* chain; a load that yields true ends the call with that load's reason, and the
\* call returns Ok (false) after its last load
TreeStopper_check_load(t) ==
    /\ thr[t].pc \in {"check", "should_stop"}
    /\ LET r == IF thr[t].pc = "check" THEN Check(thr[t].tok, View(thr[t].obs), <<>>)
                ELSE ShouldStop(thr[t].tok, View(thr[t].obs), <<>>)
           at == IF r.r = "Need" /\ r.path = <<0>> THEN ChainSet(thr[t].tok)
                 ELSE thr[t].chain
       IN  thr' = [thr EXCEPT ![t] =
                      IF r.r = "Need" /\ ~r.val
                      THEN [@ EXCEPT !.obs = @ \cup {r.path}, !.chain = at]
                      ELSE [TreeIdle EXCEPT !.got = IF r.r = "Need" THEN r.reason ELSE r.r]]
    /\ UNCHANGED <<tokVars, ffiVars, ret, auxVars, ncancel, fired, memVars, loop>>

\* --------------------------------------------- the two child implementations
\* The same tree built twice, side by side: the enough-std ChildCancellationSource
\* (kind "child", flat) at heap entry c and the enough ChildCancellationSource
\* (kind "rchild", recursive) at entry c + 1, constructed by the same calls and
\* cancelled by the same calls.
Twin(c) == c + 1

\* The heap grows by the two values of one construction
AllocTwin(flat, rec, cap) ==
    /\ RustSide
    /\ Len(heap) + 2 <= cap
    /\ heap' = heap \o <<flat, rec>>
    /\ UNCHANGED <<now, ffiVars, conVars>>

\* ChildCancellationSource::new(parent) of both crates on the token parent:
\* enough-std keeps parent.flag, enough keeps Box::new(parent)
TwinChild_new(parent, cap) ==
    /\ KindIs(parent, "ctok")
    /\ AllocTwin([Entry("child", parent, 0, NoDeadline, 0) EXCEPT
                     !.flags = IF heap[parent].a = 0 THEN <<>> ELSE <<heap[parent].a>>],
                 Entry("rchild", parent, 0, NoDeadline, 0), cap)

\* child() of both crates: enough-std copies &self.own_flag and self.parent_flags,
\* enough is Self::from_stop(self.token())
TwinChild_child(c, cap) ==
    /\ KindIs(c, "child")
    /\ AllocTwin([Entry("child", c, 0, NoDeadline, 0) EXCEPT !.flags = <<c>> \o heap[c].flags],
                 Entry("rchild", Twin(c), 0, NoDeadline, 0), cap)

\* cancel() of both: own_flag.store(true) and self_cancelled.store(true)
TwinChild_cancel(c) ==
    /\ KindIs(c, "child")
    /\ heap' = [i \in DOMAIN heap |->
                  IF i \in {c, Twin(c)} THEN [heap[i] EXCEPT !.flag = TRUE] ELSE heap[i]]
    /\ UNCHANGED <<now, ffiVars, conVars>>

\* FfiCancellationTokenView::check on a view whose token has not been destroyed:
\* Ok on null, else Cancelled if (*self.ptr).should_stop()
FfiCancellationTokenView_check(v) ==
    IF views[v].ptr = 0 THEN "Ok"
    ELSE IF should_stop(views[v].ptr) THEN "Cancelled" ELSE "Ok"

\* FfiCancellationTokenView::should_stop on such a view, as a value
View_should_stop(v) == views[v].ptr # 0 /\ should_stop(views[v].ptr)

\* ------------------------------------------- the recursive child (enough)
\* ChildCancellationSource::new(parent: CancellationToken): Box::new(parent)
RecChild_new(parent, cap) ==
    /\ KindIs(parent, "ctok")
    /\ Alloc(Entry("rchild", parent, 0, NoDeadline, 0), cap)

\* ChildCancellationSource::child: Self::from_stop(self.token())
RecChild_child(c, cap) ==
    /\ KindIs(c, "rchild")
    /\ Alloc(Entry("rchild", c, 0, NoDeadline, 0), cap)

\* ChildCancellationSource::token().with_deadline(d), or with_deadline on a token
\* that has one: the sooner of the two
RecChildToken_with_deadline(t, new_deadline, cap) ==
    \/ /\ KindIs(t, "rchild")
       /\ Alloc(Entry("rtok", t, 0, new_deadline, 0), cap)
    \/ /\ KindIs(t, "rtok")
       /\ Alloc(Entry("rtok", heap[t].a, 0, Min(heap[t].dl, new_deadline), t), cap)

\* ChildCancellationSource::cancel (enough): self_cancelled.store(true)
RecChild_cancel(c) ==
    /\ KindIs(c, "rchild")
    /\ heap' = StoreTrue(c)
    /\ UNCHANGED <<now, ffiVars, conVars>>

\* --------------------------------------------------- the mock decoder
\* MockDecoder { block_size, check_frequency } and the input it is given
MaxData == 4
MaxBlock == 2
MaxFreq == 2

\* No decode call is in progress.  During a call: tok is the Stop it was given,
\* k the check frequency, n the number of chunks, i the loop index, out the
\* chunks pushed to the output; entry, late and failed record whether the token
\* was stopped on entry, how many chunks were processed while it was stopped and
\* whether a check returned an error.
DecIdle == [pc |-> "idle", tok |-> 0, k |-> 0, n |-> 0, i |-> 0, out |-> 0,
            res |-> "none", entry |-> FALSE, late |-> 0, failed |-> FALSE]

\* What a decode step leaves alone
decFrame == <<now, heap, coreVars, gone, seen, resets, shareVars, guards, views, timers>>

\* data.chunks(block_size).count() for a non-empty slice and a non-zero size
Chunks(len, block_size) == (len + block_size - 1) \div block_size

\* A decoder that checks at the end of each group of iterations
MockDecoder_checks_last(i, k) == i % k = k - 1

\* if i % self.check_frequency == 0
MockDecoder_checks(i, k) == i % k = 0

\* MockDecoder::decode, entry: empty input is InvalidData; chunks() panics on a
\* block size of zero
MockDecoder_decode(tok, len, block_size, k) ==
    /\ dec.pc = "idle"
    /\ dec' = IF len = 0
              THEN [DecIdle EXCEPT !.pc = "done", !.tok = tok, !.k = k,
                                   !.res = "InvalidData", !.entry = should_stop(tok)]
              ELSE IF block_size = 0
              THEN [DecIdle EXCEPT !.pc = "done", !.tok = tok, !.k = k, !.n = 1,
                                   !.res = "panic", !.entry = should_stop(tok)]
              ELSE [DecIdle EXCEPT !.pc = "loop", !.tok = tok, !.k = k,
                                   !.n = Chunks(len, block_size),
                                   !.entry = should_stop(tok)]
    /\ UNCHANGED decFrame

\* MockDecoder::decode, the head of one iteration: the loop ends with
\* Ok(output); i % 0 panics; on every k-th iteration stop.check()? returns the
\* error
MockDecoder_decode_head ==
    /\ dec.pc = "loop"
    /\ dec' = IF dec.i = dec.n
              THEN [dec EXCEPT !.pc = "done", !.res = "Ok"]
              ELSE IF dec.k = 0
              THEN [dec EXCEPT !.pc = "done", !.res = "panic"]
              ELSE IF MockDecoder_checks(dec.i, dec.k) /\ check(dec.tok) # "Ok"
              THEN [dec EXCEPT !.pc = "done", !.res = "Stopped", !.failed = TRUE]
              ELSE [dec EXCEPT !.pc = "work"]
    /\ UNCHANGED decFrame

\* MockDecoder::decode, the body of one iteration: the chunk is pushed
MockDecoder_decode_work ==
    /\ dec.pc = "work"
    /\ dec' = [dec EXCEPT !.pc = "loop", !.i = @ + 1, !.out = @ + 1,
                          !.late = IF should_stop(dec.tok) THEN @ + 1 ELSE @]
    /\ UNCHANGED decFrame

\* The caller takes the result
MockDecoder_decode_return ==
    /\ dec.pc = "done"
    /\ dec' = DecIdle
    /\ UNCHANGED decFrame

Decode ==
    \/ \E tok \in Toks, len \in 0..MaxData, block_size \in 0..MaxBlock, k \in 0..MaxFreq :
           MockDecoder_decode(tok, len, block_size, k)
    \/ MockDecoder_decode_head
    \/ MockDecoder_decode_work
    \/ MockDecoder_decode_return

\* ------------------------------------------------- cancel_after (enough-std)
\* The threads spawned by cancel_after on an Arc<CancellationSource>: h is the
\* Arc the closure owns, at the instant of the call, d the duration, pc
\* "sleeping" | "cancelled" | "exited"; old is the flag its store replaced
MaxTimers == 1
Timers == 1..Len(timers)


\* Value h is an Arc held by a caller, not by a spawned thread
Caller(h) == Held(h) /\ \A i \in Timers : timers[i].h # h

\* A sleep that may return before the duration has passed
thread_sleep_returns_early(t) == TRUE

\* thread::sleep(duration) returns: at least the duration has passed
thread_sleep_returns(t) == now >= t.at + t.d

\* CancellationSource::cancel_after through the caller's Arc h: Arc::clone(self),
\* thread::spawn of the closure, return; the flag is not touched and the call
\* waits for nothing.  (The clock of a run ends at MaxTime: a timer is started
\* only if it can wake by then.)
CancellationSource_cancel_after(h, duration) ==
    /\ Caller(h)
    /\ Len(timers) < MaxTimers
    /\ now + duration <= MaxTime
    /\ handles' = Append(handles, Handle("ArcSource", handles[h].to, h))
    /\ arc' = Arc_clone(arc, handles[h].to)
    /\ timers' = Append(timers, [h |-> Len(handles) + 1, at |-> now, d |-> duration,
                                 pc |-> "sleeping", old |-> FALSE])
    /\ UNCHANGED <<tokVars, coreVars, gone, seen, resets, guards, views, dec>>

\* The spawned closure: thread::sleep(duration); source.cancel()
cancel_after_closure_cancel(i) ==
    /\ timers[i].pc = "sleeping"
    /\ thread_sleep_returns(timers[i])
    /\ heap' = StoreTrue(handles[timers[i].h].to)
    /\ timers' = [timers EXCEPT ![i].pc = "cancelled",
                                ![i].old = heap[handles[timers[i].h].to].flag]
    /\ UNCHANGED <<now, coreVars, gone, seen, resets, shareVars, guards, views, dec>>

\* The spawned closure returns: its Arc is dropped
cancel_after_closure_exit(i) ==
    /\ timers[i].pc = "cancelled"
    /\ handles' = [handles EXCEPT ![timers[i].h].live = FALSE]
    /\ arc' = Arc_drop(arc, handles[timers[i].h].to)
    /\ timers' = [timers EXCEPT ![i].pc = "exited"]
    /\ UNCHANGED <<tokVars, coreVars, gone, seen, resets, guards, views, dec>>

\* CancellationSource::cancel through a caller's Arc
ArcSource_cancel(h) ==
    /\ Caller(h)
    /\ Stopper_cancel(handles[h].to)

\* CancellationSource::reset through a caller's Arc
ArcSource_reset(h) ==
    /\ Caller(h)
    /\ CancellationSource_reset(handles[h].to)

\* A caller drops its Arc
ArcSource_drop(h) == Caller(h) /\ Shared_drop(h)

\* ------------------------------------------------------------- specification
InitFfi ==
    /\ source = "none"
    /\ state = [cancelled |-> FALSE, strong |-> 0, alloc |-> "none"]
    /\ called = FALSE
    /\ dropped = {}
    /\ ret = Returned("none", "none", 0, "none")

\* No thread is inside a call
InitThr ==
    /\ thr = [t \in Threads |-> Idle]
    /\ fired = 0

\* Nothing stored, nothing observed
InitView ==
    /\ view = [t \in Threads |-> Unseen]

InitMem ==
    /\ mem = [ord |-> "Relaxed", data |-> 0, flag |-> <<>>, ncall |-> 0]
    /\ InitView

\* The loop has not started
InitLoop ==
    /\ loop = [first_signal |-> FALSE, arrived |-> 0, canc |-> "start", midrun |-> FALSE,
               item |-> [i \in Items |-> "todo"],
               w |-> [t \in Threads |-> Resting]]

\* Nothing has been dropped
\* No decode call and no timer thread
InitJobs ==
    /\ dec = DecIdle
    /\ timers = <<>>

InitAux ==
    /\ gone = {}
    /\ seen = [stopped |-> {}, back |-> {}]
    /\ resets = {}
    /\ handles = <<>>
    /\ arc = <<>>
    /\ guards = <<>>
    /\ views = <<>>
    /\ InitJobs

\* One Stopper has been constructed
Init ==
    /\ now = 0
    /\ heap = <<Entry("flag", 0, 0, NoDeadline, 0)>>
    /\ InitFfi
    /\ InitThr
    /\ ncancel = <<>>
    /\ InitMem
    /\ InitLoop
    /\ InitAux

Construct(cap) ==
    \/ Stopper_new(cap)
    \/ \E a, b \in Composable : OrStop_new(a, b, cap)
    \/ \E i \in Composable, d \in Durations : with_timeout(i, d, cap)
    \/ \E i \in Composable, d \in Instants : with_deadline(i, d, cap)
    \/ \E w \in Toks, d \in Durations : KindIs(w, "timeout") /\ tighten(w, d, cap)
    \/ \E w \in Toks, d \in Instants : KindIs(w, "timeout") /\ tighten_deadline(w, d, cap)
    \/ \E f \in Toks : KindIs(f, "flag") /\ CancellationSource_token(f, cap)
    \/ \E t \in Toks, d \in Instants : KindIs(t, "ctok") /\ ctok_with_deadline(t, d, cap)
    \/ \E t \in Toks, d \in Durations : KindIs(t, "ctok") /\ ctok_with_timeout(t, d, cap)
    \/ TreeStopper_new(cap)
    \/ \E p \in Composable : p # 0 /\ ~KindIs(p, "tree") /\ TreeStopper_with_parent(p, cap)
    \/ \E n \in Toks : KindIs(n, "tree") /\ TreeStopper_child(n, cap)

Cancel ==
    \/ \E i \in Toks : KindIs(i, "flag") /\ Stopper_cancel(i)
    \/ \E n \in Toks : KindIs(n, "tree") /\ TreeStopper_cancel(n)

\* The C API is called in the runs that build C handles only
Ffi(cap) ==
    \/ enough_cancellation_create
    \/ \E ptr \in {"null", "source"} : FfiSide /\ enough_cancellation_cancel(ptr)
    \/ \E ptr \in {"null", "source"} : FfiSide /\ enough_cancellation_is_cancelled(ptr)
    \/ \E ptr \in {"null", "source"} : FfiSide /\ enough_cancellation_destroy(ptr)
    \/ \E ptr \in {"null", "source"} : FfiSide /\ enough_token_create(ptr, cap)
    \/ enough_token_create_never(cap)
    \/ \E tok \in {0} \cup Toks : FfiSide /\ enough_token_is_cancelled(tok)
    \/ \E tok \in {0} \cup Toks : FfiSide /\ enough_token_destroy(tok)

Next ==
    \/ Construct(1 + MaxTok)
    \/ Cancel
    \/ Tick
    \/ \E i \in Toks : Poll(i)
    \/ Ffi(1 + MaxTok)

Spec == Init /\ [][Next]_vars

\* Trees only: TreeStopper nodes under the first Stopper or under each other
TreeConstruct(cap) ==
    \/ TreeStopper_new(cap)
    \/ TreeStopper_with_parent(1, cap)
    \/ \E n \in Toks : KindIs(n, "tree") /\ TreeStopper_child(n, cap)

NextTree ==
    \/ TreeConstruct(1 + MaxTree)
    \/ Cancel
    \/ \E i \in Toks : Poll(i)

SpecTree == Init /\ [][NextTree]_vars

\* Tokens only: a CancellationSource, its token, and the tokens derived from it
\* by with_timeout / with_deadline
InitToken ==
    /\ now = 0
    /\ heap = <<Entry("flag", 0, 0, NoDeadline, 0), Entry("ctok", 1, 0, NoDeadline, 0)>>
    /\ InitFfi
    /\ InitThr
    /\ ncancel = <<>>
    /\ InitMem
    /\ InitLoop
    /\ InitAux

TokenConstruct(cap) ==
    \/ \E t \in Toks, d \in Instants : KindIs(t, "ctok") /\ ctok_with_deadline(t, d, cap)
    \/ \E t \in Toks, d \in Durations : KindIs(t, "ctok") /\ ctok_with_timeout(t, d, cap)

NextToken ==
    \/ TokenConstruct(MaxTok + 3)
    \/ \E i \in Toks : KindIs(i, "flag") /\ Stopper_cancel(i)
    \/ Tick
    \/ \E i \in Toks : Poll(i)

SpecToken == InitToken /\ [][NextToken]_vars

\* Threads: a Stopper, a CancellationToken of it with a deadline, and a
\* CallbackCancellation, cancelled and checked by concurrent threads
InitThreads ==
    /\ now = 0
    /\ \E d \in Instants \cup {NoDeadline} :
          heap = <<Entry("flag", 0, 0, NoDeadline, 0),
                   Entry("ctok", 1, 0, d, 0),
                   Entry("callback", 0, 0, NoDeadline, 0)>>
    /\ InitFfi
    /\ InitThr
    /\ ncancel = <<0, 0, 0>>
    /\ InitMem
    /\ InitLoop
    /\ InitAux

NextThreads ==
    \/ \E t \in Threads, i \in Toks : cancel_call(t, i)
    \/ \E t \in Threads, i \in Toks : CallbackCancellation_cancel_swap(t, i)
    \/ \E t \in Threads : CallbackCancellation_cancel_invoke(t)
    \/ \E t \in Threads, i \in Toks : check_call(t, i)
    \/ \E t \in Threads : check_load(t)
    \/ Tick

SpecThreads == InitThreads /\ [][NextThreads]_vars

\* Weak memory: threads store data, cancel, poll should_stop() and load data
InitSync ==
    /\ now = 0
    /\ heap = <<Entry("flag", 0, 0, NoDeadline, 0)>>
    /\ InitFfi
    /\ InitThr
    /\ ncancel = <<>>
    /\ \E o \in {"Relaxed", "Sync"} : mem = [ord |-> o, data |-> 0, flag |-> <<>>, ncall |-> 0]
    /\ view = [t \in Threads |-> IF t = MaxThreads THEN [Unseen EXCEPT !.pc = "produce"]
                                                   ELSE Unseen]
    /\ InitLoop
    /\ InitAux

NextSync ==
    \/ \E t \in Threads : data_store(t)
    \/ \E t \in Threads : SyncStop_cancel(t)
    \/ \E t \in Threads : \E ts \in 0..MaxCalls : should_stop_load(t, ts)
    \/ \E t \in Threads : \E ts \in 0..MaxWrites : data_load(t, ts)
    \/ \E t \in Threads : poll_begin(t)

SpecSync == InitSync /\ [][NextSync]_vars

\* The polling loop keeps running, and a store becomes visible to its loads in
\* finite time: the load that returns the newest store is eventually made
FairPoll ==
    \A t \in Threads :
        WF_vars(view[t].pc = "polling" /\ should_stop_load(t, Len(mem.flag)))

SpecPoll == InitSync /\ [][NextSync]_vars /\ FairPoll

\* The parallel loop of parallel_iter_cancelled over one shared Stopper
NextLoop ==
    \/ \E t \in Threads, i \in Items : worker_take(t, i)
    \/ \E t \in Threads : worker_barrier_wait(t)
    \/ \E t \in Threads : worker_barrier_pass(t)
    \/ \E t \in Threads : process_item(t)
    \/ \E t \in Threads : worker_return(t)
    \/ canceller_wait
    \/ canceller_cancel

SpecLoop == Init /\ [][NextLoop]_vars

\* Flat children: an enough-std CancellationSource, its tokens, and the
\* ChildCancellationSources built on them; sources are cancelled, reset, moved
\* and dropped
ChildConstruct(cap) ==
    \/ \E f \in Toks : KindIs(f, "flag") /\ Live(f) /\ CancellationSource_token(f, cap)
    \/ \E t \in Toks, d \in Instants : KindIs(t, "ctok") /\ ctok_with_deadline(t, d, cap)
    \/ \E t \in Toks : ChildCancellationSource_new(t, cap)
    \/ \E c \in Toks : KindIs(c, "child") /\ ChildCancellationSource_child(c, cap)

NextChild ==
    \/ ChildConstruct(1 + MaxChild)
    \/ \E f \in Toks : KindIs(f, "flag") /\ Live(f) /\ Stopper_cancel(f)
    \/ \E f \in Toks : KindIs(f, "flag") /\ CancellationSource_reset(f)
    \/ \E c \in Toks : KindIs(c, "child") /\ ChildCancellationSource_cancel(c)
    \/ \E c \in Toks : KindIs(c, "child") /\ ChildCancellationSource_reset(c)
    \/ \E i \in Toks : Drop(i)
    \/ \E c \in Toks : Move(c, 1 + MaxChild)
    \/ Tick

SpecChild == Init /\ [][NextChild]_vars

\* A resettable source: an enough-std CancellationSource, its tokens, a reader
NextReset ==
    \/ CancellationSource_token(1, 1 + MaxChild)
    \/ \E t \in Toks, d \in Instants :
          KindIs(t, "ctok") /\ ctok_with_deadline(t, d, 1 + MaxChild)
    \/ Stopper_cancel(1)
    \/ CancellationSource_reset(1)
    \/ \E t \in Toks : Observe(t)
    \/ Tick

SpecReset == Init /\ [][NextReset]_vars

\* Shared flags: one Stopper or one ArcStop, its clones and its tokens
InitShare ==
    /\ now = 0
    /\ heap = <<Entry("flag", 0, 0, NoDeadline, 0)>>
    /\ InitFfi
    /\ InitThr
    /\ ncancel = <<>>
    /\ InitMem
    /\ InitLoop
    /\ gone = {}
    /\ seen = [stopped |-> {}, back |-> {}]
    /\ resets = {}
    /\ \E k \in {"Stopper", "ArcStop"} : handles = <<Handle(k, 1, 0)>>
    /\ arc = <<1>>
    /\ guards = <<>>
    /\ views = <<>>
    /\ InitJobs

NextShare ==
    \/ \E h \in Handles : Stopper_clone(h)
    \/ \E h \in Handles : ArcStop_token(h)
    \/ \E h \in Handles : Shared_cancel(h)
    \/ \E h \in Handles : Shared_drop(h)

SpecShare == InitShare /\ [][NextShare]_vars

\* Guards: an ArcStop, a ChildSource built on its token, and the CancelGuards
\* made of the two
InitGuard ==
    /\ now = 0
    /\ heap = <<Entry("flag", 0, 0, NoDeadline, 0), Entry("rchild", 1, 0, NoDeadline, 0)>>
    /\ InitFfi
    /\ InitThr
    /\ ncancel = <<>>
    /\ InitMem
    /\ InitLoop
    /\ InitAux

NextGuard ==
    \/ \E src \in Toks : stop_on_drop(src)
    \/ \E g \in Guards, path \in ExitPaths : CancelGuard_drop(g, path)
    \/ \E g \in Guards : CancelGuard_disarm(g)

SpecGuard == InitGuard /\ [][NextGuard]_vars

\* The C API and the Rust code that is handed token pointers
ViewStep ==
    \/ \E tok \in {0} \cup Toks : FfiCancellationToken_from_ptr(tok)
    \/ \E v \in Views : FfiCancellationTokenView_copy(v)
    \/ \E v \in Views : FfiCancellationTokenView_drop(v)
    \/ \E v \in Views : FfiCancellationTokenView_should_stop(v)

\* The calls that make and destroy the handles of one source
FfiHandles(cap) ==
    \/ enough_cancellation_create
    \/ enough_cancellation_cancel("source")
    \/ enough_cancellation_destroy("source")
    \/ enough_token_create("source", cap)
    \/ \E tok \in Toks : enough_token_destroy(tok)

NextView ==
    \/ FfiHandles(1 + MaxTok)
    \/ ViewStep

SpecView == Init /\ [][NextView]_vars

\* Threads on a tree: a root, its child and its grandchild, cancelled and
\* checked by concurrent threads
InitRace ==
    /\ now = 0
    /\ heap = <<Entry("tree", 0, 0, NoDeadline, 0),
                Entry("tree", 1, 0, NoDeadline, 0),
                Entry("tree", 2, 0, NoDeadline, 0)>>
    /\ InitFfi
    /\ thr = [t \in Threads |-> TreeIdle]
    /\ fired = 0
    /\ ncancel = <<0, 0, 0>>
    /\ InitMem
    /\ InitLoop
    /\ InitAux

NextRace ==
    \/ \E t \in Threads, n \in Toks : TreeStopper_cancel_call(t, n)
    \/ \E t \in Threads, n \in Toks, call \in {"check", "should_stop"} :
          TreeStopper_check_call(t, n, call)
    \/ \E t \in Threads : TreeStopper_check_load(t)

SpecRace == InitRace /\ [][NextRace]_vars

\* The two child implementations under one CancellationSource, its tokens with
\* and without a deadline, the same cancel() calls and the same clock
TwinCap == 2 + MaxTok + MaxChild

NextTwin ==
    \/ CancellationSource_token(1, 1 + MaxTok)
    \/ \E t \in Toks, d \in Instants : KindIs(t, "ctok") /\ ctok_with_deadline(t, d, 1 + MaxTok)
    \/ \E t \in Toks : TwinChild_new(t, TwinCap)
    \/ \E c \in Toks : TwinChild_child(c, TwinCap)
    \/ \E c \in Toks : TwinChild_cancel(c)
    \/ Stopper_cancel(1)
    \/ Tick

SpecTwin == Init /\ [][NextTwin]_vars

\* One CallbackCancellation, cancelled and checked by concurrent threads
InitCallback ==
    /\ now = 0
    /\ heap = <<Entry("callback", 0, 0, NoDeadline, 0)>>
    /\ InitFfi
    /\ InitThr
    /\ ncancel = <<0>>
    /\ InitMem
    /\ InitLoop
    /\ InitAux

NextCallback ==
    \/ \E t \in Threads : CallbackCancellation_cancel_swap(t, 1)
    \/ \E t \in Threads : CallbackCancellation_cancel_invoke(t)
    \/ \E t \in Threads : check_call(t, 1)
    \/ \E t \in Threads : check_load(t)

SpecCallback == InitCallback /\ [][NextCallback]_vars

\* Every token type: the Rust tokens of Spec or, in the runs that build C
\* handles, the handles and the views of their tokens.  The C handles read no
\* clock and no Stopper: the runs that build them leave both as constructed.
CSide == now = 0 /\ ~heap[1].flag

NextAgree ==
    \/ Construct(1 + MaxTok)
    \/ RustSide /\ Cancel
    \/ RustSide /\ Tick
    \/ CSide /\ FfiHandles(1 + MaxTok)
    \/ CSide /\ ViewStep

SpecAgree == Init /\ [][NextAgree]_vars

\* Nodes: TreeStoppers and recursive children under parents that can be
\* cancelled or time out
NodeCap == 1 + MaxChild

NodeConstruct(cap) ==
    \/ \E d \in Instants : with_deadline(1, d, cap)
    \/ CancellationSource_token(1, cap)
    \/ \E t \in Toks, d \in Instants : KindIs(t, "ctok") /\ ctok_with_deadline(t, d, cap)
    \/ TreeStopper_new(cap)
    \/ \E p \in Toks : ~KindIs(p, "tree") /\ heap[p].kind \notin {"rchild", "rtok"}
                         /\ TreeStopper_with_parent(p, cap)
    \/ \E n \in Toks : KindIs(n, "tree") /\ TreeStopper_child(n, cap)
    \/ \E t \in Toks : RecChild_new(t, cap)
    \/ \E c \in Toks : RecChild_child(c, cap)
    \/ \E t \in Toks, d \in Instants : RecChildToken_with_deadline(t, d, cap)

NextNode ==
    \/ NodeConstruct(NodeCap)
    \/ Stopper_cancel(1)
    \/ \E n \in Toks : KindIs(n, "tree") /\ TreeStopper_cancel(n)
    \/ \E c \in Toks : RecChild_cancel(c)
    \/ Tick

SpecNode == Init /\ [][NextNode]_vars

\* The Stop a decode call is given: the first Stopper, or one token built on it
DecodeCap == 2

DecodeStop(cap) ==
    \/ \E i \in Composable, d \in Durations : with_timeout(i, d, cap)
    \/ \E a, b \in Composable : OrStop_new(a, b, cap)
    \/ \E f \in Toks : KindIs(f, "flag") /\ CancellationSource_token(f, cap)

\* The tokens are built before the first decode call and before the clock is
\* read
Building == dec = DecIdle /\ now = 0 /\ CSide

\* A decoder at work on tokens built beforehand, while other threads cancel and
\* time passes
NextDecode ==
    \/ Building /\ DecodeStop(DecodeCap)
    \/ \E f \in Toks : KindIs(f, "flag") /\ Stopper_cancel(f)
    \/ Tick
    \/ Decode

SpecDecode == Init /\ [][NextDecode]_vars

\* An Arc<CancellationSource> held by two callers (the second a clone of the
\* first) and the threads cancel_after spawns
InitTimer ==
    /\ now = 0
    /\ heap = <<Entry("flag", 0, 0, NoDeadline, 0)>>
    /\ InitFfi
    /\ InitThr
    /\ ncancel = <<>>
    /\ InitMem
    /\ InitLoop
    /\ gone = {}
    /\ seen = [stopped |-> {}, back |-> {}]
    /\ resets = {}
    /\ handles = <<Handle("ArcSource", 1, 0), Handle("ArcSource", 1, 1)>>
    /\ arc = <<2>>
    /\ guards = <<>>
    /\ views = <<>>
    /\ InitJobs

NextTimer ==
    \/ \E h \in Handles, d \in Durations : CancellationSource_cancel_after(h, d)
    \/ \E i \in Timers : cancel_after_closure_cancel(i)
    \/ \E i \in Timers : cancel_after_closure_exit(i)
    \/ \E h \in Handles : ArcSource_cancel(h)
    \/ \E h \in Handles : ArcSource_reset(h)
    \/ \E h \in Handles : ArcSource_drop(h)
    \/ Tick

\* Time passes and the spawned threads are scheduled
FairTimer ==
    /\ WF_vars(Tick)
    /\ \A i \in 1..MaxTimers :
          WF_vars(i \in Timers /\ cancel_after_closure_cancel(i))

SpecTimer == InitTimer /\ [][NextTimer]_vars /\ FairTimer

\* ------------------------------------------------------------------ claims
\* The chain of parents above a tree node (the first Stopper included when it
\* is the parent of the topmost node)
RECURSIVE Ancestors(_)
Ancestors(d) ==
    IF KindIs(d, "tree") /\ heap[d].a # 0
    THEN {heap[d].a} \cup Ancestors(heap[d].a)
    ELSE {}

\* C1: with no reset, a token that reports should_stop() = true reports true in
\* every later state too, and check() on it returns an error, whatever cancel()
\* calls, polls, clock advances and handle operations happen in between.
C1_Monotonic ==
    [][\A i \in Toks : (i \notin dropped' /\ should_stop(i))
            => (should_stop(i)' /\ check(i)' # "Ok")]_vars

\* C1 witness: a token that stopped at its deadline is still stopped after the
\* clock has moved on, and a cancelled flag is still set.
C1_Witness ==
    \E i, j \in Toks : /\ KindIs(i, "timeout") /\ heap[i].dl < now /\ should_stop(i)
                       /\ KindIs(j, "flag") /\ heap[j].flag /\ check(j) = "Cancelled"

\* C2: a cancel() that sets a tree node's flag makes that node report stopped
\* and leaves should_stop() of every node that is not below it unchanged:
\* its parent, the other ancestors, its siblings and their subtrees.
C2_TreeCancelIsolated ==
    [][\A n \in Toks : (KindIs(n, "tree") /\ ~heap[n].flag /\ heap'[n].flag)
            => /\ should_stop(n)'
               /\ \A m \in Toks : (m # n /\ n \notin Ancestors(m))
                      => (should_stop(m)' = should_stop(m))]_vars

\* C2 witness: a cancelled node whose parent and sibling are not stopped.
C2_Witness ==
    \E n, m \in Toks :
        /\ n # m /\ KindIs(n, "tree") /\ KindIs(m, "tree")
        /\ heap[n].a # 0 /\ heap[n].a = heap[m].a
        /\ heap[n].flag /\ should_stop(n)
        /\ ~should_stop(m) /\ ~should_stop(heap[n].a)

\* C3: once a node's flag is set, every node below it, at any depth, reports
\* should_stop() = true and check() = Cancelled, its own flag set or not.
C3_TreePropagates ==
    \A n \in Toks : heap[n].flag
        => \A d \in Toks : n \in Ancestors(d)
              => (should_stop(d) /\ check(d) = "Cancelled")

\* C3 witness: a cancelled node three levels above a node, with nothing done to
\* the nodes in between or to the node itself.
C3_Witness ==
    \E d \in Toks :
        /\ Cardinality(Ancestors(d)) >= 3
        /\ ~heap[d].flag
        /\ Cardinality({n \in Ancestors(d) : heap[n].flag}) = 1
        /\ \E n \in Ancestors(d) :
              heap[n].flag /\ Cardinality(Ancestors(n)) = Cardinality(Ancestors(d)) - 3
        /\ should_stop(d)

\* FFI token handles that hold a reference to the source's state and are not destroyed
LiveTokens == {i \in Toks : heap[i].kind = "ffitok" /\ heap[i].a = 1 /\ i \notin dropped}

\* C4: once the source handle is destroyed, every token created from it reports
\* cancelled exactly if cancel was called on the source before the destroy, and
\* its value is the same in every later state.
C4_FrozenAfterDestroy ==
    [][source' = "destroyed"
        => \A i \in 1..Len(heap') :
              (heap'[i].kind = "ffitok" /\ heap'[i].a = 1 /\ i \notin dropped')
                 => /\ should_stop(i)' = called'
                    /\ (check(i)' = "Cancelled") = called'
                    /\ (source = "destroyed" /\ i \in Toks)
                          => (should_stop(i)' = should_stop(i))]_vars

\* C4 witness: the source was cancelled and destroyed, and a token created from
\* it still reports cancelled.
C4_Witness ==
    /\ source = "destroyed"
    /\ called
    /\ \E i \in LiveTokens : should_stop(i)

\* C5: the shared state is allocated while any handle that refers to it exists,
\* and is freed exactly when the source handle and every token handle created
\* from it have been destroyed, in whatever order.
C5_FreedByLastHandle ==
    /\ (source = "live" \/ LiveTokens # {}) => state.alloc = "live"
    /\ state.alloc = "freed" <=> (source = "destroyed" /\ LiveTokens = {})

\* C5 witness: the source handle and one token handle are destroyed, and another
\* token created from the source is still read from allocated state.
C5_Witness ==
    /\ source = "destroyed"
    /\ \E i \in LiveTokens, j \in dropped : heap[j].a = 1 /\ check(i) \in {"Ok", "Cancelled"}
    /\ state.alloc = "live"

\* The deadlines applied so far along a chain of timeout wrappers
RECURSIVE Applied(_)
Applied(t) ==
    IF KindIs(t, "timeout") THEN {heap[t].dl} \cup Applied(heap[t].a) ELSE {}

Earliest(t) == CHOOSE d \in Applied(t) : \A e \in Applied(t) : d <= e

\* C6: deadline() and remaining() of a token made by applying with_timeout /
\* with_deadline several times reflect the earliest deadline applied so far,
\* whatever the order of application.
C6_EarliestDeadlineWins ==
    \A t \in Toks : KindIs(t, "timeout")
        => /\ WithTimeout_deadline(t) = Earliest(t)
           /\ WithTimeout_remaining(t) = (IF Earliest(t) > now THEN Earliest(t) - now ELSE 0)

\* C7: a token made by adding a timeout to a received token is stopped whenever
\* the received token is stopped.
C7_TimeoutNeverExtends ==
    \A t \in Toks : heap[t].from # 0
        => /\ should_stop(heap[t].from) => should_stop(t)
           /\ check(heap[t].from) # "Ok" => check(t) # "Ok"

\* C7 witness: the received token has reached its deadline, the timeout added on
\* top of it has not, and the new token is stopped.
C7_Witness ==
    \E t \in Toks :
        /\ KindIs(t, "timeout") /\ KindIs(heap[t].from, "timeout")
        /\ heap[heap[t].from].dl <= now /\ now < heap[t].dl
        /\ should_stop(t) /\ check(t) = "TimedOut"

\* C8: Or(a, b).check() is a's error when a is stopped, and then no load of b is
\* made; otherwise it is b.check().
C8_OrFirstOperandWins ==
    \A t \in Toks : KindIs(t, "or")
        => LET ra == check(heap[t].a)
               rb == check(heap[t].b)
               ls == Loads(t, {})
           IN  /\ ra # "Ok" => (check(t) = ra /\ \A k \in 1..Len(ls) : ls[k][1] = 1)
               /\ ra = "Ok" => check(t) = rb

\* C8 witness: both operands are stopped, for different reasons, and the Or
\* returns the first operand's reason.
C8_Witness ==
    \E t \in Toks :
        /\ KindIs(t, "or")
        /\ check(heap[t].a) = "TimedOut" /\ check(heap[t].b) = "Cancelled"
        /\ check(t) = "TimedOut"

\* The token a timeout-bearing token delegates to: the wrapped token, or the flag
Inner(t) == heap[t].a

\* Instant::now() has reached the deadline of t (never, without a deadline)
Reached(t) == heap[t].dl # NoDeadline /\ now >= heap[t].dl

TimeoutBearing == {t \in Toks : heap[t].kind \in {"timeout", "ctok"}}

\* C9 as stated: Cancelled when the inner token is cancelled; TimedOut only when
\* the inner token is not stopped and the deadline is reached; otherwise Ok.
C9_AsStated ==
    \A t \in TimeoutBearing :
        check(t) = IF check(Inner(t)) = "Cancelled" THEN "Cancelled"
                   ELSE IF ~should_stop(Inner(t)) /\ Reached(t) THEN "TimedOut"
                   ELSE "Ok"

\* C9 amended: check() returns the inner token's own error whenever the inner
\* token is stopped (Cancelled even if the deadline has passed, TimedOut when the
\* inner token has itself timed out); TimedOut when the inner token is not
\* stopped and the deadline is reached; otherwise Ok.
C9_InnerReasonFirst ==
    \A t \in TimeoutBearing :
        check(t) = IF check(Inner(t)) # "Ok" THEN check(Inner(t))
                   ELSE IF Reached(t) THEN "TimedOut"
                   ELSE "Ok"

\* C9 witness: the inner token is cancelled and the deadline has passed too.
C9_Witness ==
    \E t \in TimeoutBearing :
        check(Inner(t)) = "Cancelled" /\ Reached(t) /\ check(t) = "Cancelled"

\* Some flag among the inputs of token t is set
RECURSIVE HasCancelled(_)
HasCancelled(t) ==
    IF t = 0 THEN FALSE
    ELSE CASE heap[t].kind = "flag" -> heap[t].flag
           [] heap[t].kind = "or" -> HasCancelled(heap[t].a) \/ HasCancelled(heap[t].b)
           [] heap[t].kind = "timeout" -> HasCancelled(heap[t].a)
           [] heap[t].kind = "ctok" -> HasCancelled(heap[t].a)
           [] heap[t].kind = "tree" -> heap[t].flag \/ HasCancelled(heap[t].a)
           [] heap[t].kind = "ffitok" -> heap[t].a = 1 /\ state.cancelled

\* Some deadline among the inputs of token t has been reached
RECURSIVE HasElapsed(_)
HasElapsed(t) ==
    IF t = 0 THEN FALSE
    ELSE CASE heap[t].kind = "flag" -> FALSE
           [] heap[t].kind = "or" -> HasElapsed(heap[t].a) \/ HasElapsed(heap[t].b)
           [] heap[t].kind = "timeout" -> Reached(t) \/ HasElapsed(heap[t].a)
           [] heap[t].kind = "ctok" -> Reached(t)
           [] heap[t].kind = "tree" -> HasElapsed(heap[t].a)
           [] heap[t].kind = "ffitok" -> FALSE

\* Token t is built without Or
RECURSIVE OrFree(_)
OrFree(t) ==
    IF t = 0 THEN TRUE
    ELSE CASE heap[t].kind = "or" -> FALSE
           [] heap[t].kind \in {"timeout", "tree"} -> OrFree(heap[t].a)
           [] OTHER -> TRUE

\* C10 as stated: for any composition, a set flag and a reached deadline among
\* the inputs make check() return Cancelled.
C10_AsStated ==
    \A t \in Toks : (t \notin dropped /\ HasCancelled(t) /\ HasElapsed(t))
        => check(t) = "Cancelled"

\* C10 amended: a composition of timeout and tree combinators without Or returns
\* Cancelled whenever a flag among its inputs is set, reached deadlines or not;
\* an Or keeps its first-operand rule, so it returns TimedOut when its first
\* operand has timed out, even if its second operand is cancelled.
C10_CancelFirstWithoutOr ==
    /\ \A t \in Toks : (t \notin dropped /\ OrFree(t) /\ HasCancelled(t))
          => check(t) = "Cancelled"
    /\ \A t \in Toks : (KindIs(t, "or") /\ check(heap[t].a) = "TimedOut")
          => check(t) = "TimedOut"

\* C10 witness: a tree node under a timeout whose deadline has passed and whose
\* inner flag is set: Cancelled is returned through both combinators.
C10_Witness ==
    \E t \in Toks :
        /\ KindIs(t, "tree") /\ KindIs(heap[t].a, "timeout")
        /\ Reached(heap[t].a) /\ HasCancelled(heap[t].a)
        /\ check(t) = "Cancelled"

\* The tokens of flag f: the flag-backed value itself (its clones share the flag)
\* and the CancellationTokens that point to it
TokensOf(f) == {f} \cup {i \in Toks : heap[i].kind = "ctok" /\ heap[i].a = f}

\* C11: once cancel() has been called on a flag at least once, by any threads in
\* any interleaving with checks, the flag is set and every token of it reports
\* stopped with reason Cancelled; a further cancel() changes nothing.
C11_CancelIdempotent ==
    [][\A f \in Toks : heap[f].kind = "flag"
          => /\ ncancel'[f] >= 1
                  => /\ heap'[f].flag
                     /\ \A i \in TokensOf(f) : should_stop(i)' /\ check(i)' = "Cancelled"
             /\ (ncancel[f] >= 1 /\ ncancel'[f] > ncancel[f]) => heap' = heap]_vars

\* C11 witness: cancel() was called more than once on the flag while a check of
\* its token, whose deadline has also passed, is under way on another thread.
C11_Witness ==
    \E f \in Toks, t \in Threads :
        /\ heap[f].kind = "flag" /\ ncancel[f] >= 2
        /\ thr[t].pc = "check" /\ thr[t].tok \in TokensOf(f) \ {f}
        /\ heap[thr[t].tok].dl # NoDeadline /\ now >= heap[thr[t].tok].dl
        /\ check(thr[t].tok) = "Cancelled"

\* C12: the callback of a CallbackCancellation is invoked at most once; not at
\* all while cancel() was never called; and exactly once when cancel() was called
\* and every call has returned.
C12_CallbackOnce ==
    \A c \in Toks : heap[c].kind = "callback"
        => /\ fired <= 1
           /\ ncancel[c] = 0 => fired = 0
           /\ (ncancel[c] >= 1 /\ \A t \in Threads : thr[t].pc # "swapped") => fired = 1

\* C12 witness: cancel() was called at least twice, every call has returned, and
\* the callback has run once.
C12_Witness ==
    \E c \in Toks :
        /\ heap[c].kind = "callback" /\ ncancel[c] >= 2 /\ fired = 1
        /\ \A t \in Threads : thr[t].pc # "swapped"

\* C13: with the release/acquire variants, a thread whose load of the flag
\* returned a cancel() has observed every data store the cancelling thread had
\* made before that cancel(): its later loads of the data return that store or a
\* newer one.
C13_ReleaseAcquireVisibility ==
    mem.ord = "Sync"
        => \A t \in Threads : (~Producing(t) /\ view[t].f > 0)
              => view[t].d >= mem.flag[view[t].f].wrote

\* C13 witness: a consumer observed a cancel() that the producer made after
\* storing data, while a newer store to the data exists.
C13_Witness ==
    /\ mem.ord = "Sync"
    /\ \E t \in Threads :
          /\ ~Producing(t) /\ view[t].f > 0
          /\ mem.flag[view[t].f].wrote >= 1
          /\ mem.data > mem.flag[view[t].f].wrote

\* C14: a tree node's should_stop() is (own flag set) OR (the parent's
\* should_stop()), a root having no parent term, whatever kind of token the
\* parent is.
C14_TreeInvariant ==
    \A n \in Toks : KindIs(n, "tree")
        => should_stop(n) = (heap[n].flag \/ (heap[n].a # 0 /\ should_stop(heap[n].a)))

\* C14 witness: a node whose own flag is unset is stopped because its parent, a
\* timeout wrapper, has passed its deadline.
C14_Witness ==
    \E n \in Toks :
        /\ KindIs(n, "tree") /\ ~heap[n].flag
        /\ KindIs(heap[n].a, "timeout") /\ check(heap[n].a) = "TimedOut"
        /\ should_stop(n)

\* The deadlines passed to with_timeout / with_deadline along the derivation of
\* a CancellationToken
RECURSIVE AppliedTo(_)
AppliedTo(t) ==
    IF KindIs(t, "ctok") /\ heap[t].from # 0
    THEN {heap[t].arg} \cup AppliedTo(heap[t].from)
    ELSE {}

\* C15: deadline() of a CancellationToken is the minimum of all the deadlines
\* applied so far (None if there are none), so applying another timeout never
\* increases remaining().
C15_DeadlineOnlyTightens ==
    \A t \in Toks : KindIs(t, "ctok")
        => /\ AppliedTo(t) = {} => CancellationToken_deadline(t) = NoDeadline
           /\ AppliedTo(t) # {}
                => /\ CancellationToken_deadline(t) \in AppliedTo(t)
                   /\ \A d \in AppliedTo(t) : CancellationToken_deadline(t) <= d
           /\ (heap[t].from # 0 /\ CancellationToken_deadline(heap[t].from) # NoDeadline)
                => CancellationToken_remaining(t) <= CancellationToken_remaining(heap[t].from)

\* C15 witness: a later deadline was applied to a token that already had an
\* earlier one, which it kept, and time remains.
C15_Witness ==
    \E t \in Toks :
        /\ KindIs(t, "ctok") /\ heap[t].from # 0
        /\ CancellationToken_deadline(heap[t].from) # NoDeadline
        /\ heap[t].arg > CancellationToken_deadline(t)
        /\ CancellationToken_remaining(t) > 0

\* The C functions that return nothing, and those that return a bool
VoidFns == {"enough_cancellation_cancel", "enough_cancellation_destroy", "enough_token_destroy"}
BoolFns == {"enough_cancellation_is_cancelled", "enough_token_is_cancelled"}

\* A token that holds no shared state (created from a null source, or by
\* enough_token_create_never) and has not been destroyed
NeverTokens == {i \in Toks : heap[i].kind = "ffitok" /\ heap[i].a = 0 /\ i \notin dropped}

\* C16: a C function called with a null pointer returns its documented default
\* and changes nothing: cancel and destroy are no-ops, is_cancelled returns
\* false, and create_token returns a new token that holds no shared state; such
\* a token reports not-cancelled in every state.
C16_NullSafety ==
    [][/\ (ret' # ret /\ ret'.arg = "null")
            => /\ UNCHANGED <<now, source, state, called, dropped>>
               /\ ret'.fn \in VoidFns => (ret'.val = "void" /\ heap' = heap)
               /\ ret'.fn \in BoolFns => (ret'.val = "false" /\ heap' = heap)
               /\ ret'.fn = "enough_token_create"
                     => /\ heap' = Append(heap, heap'[ret'.tok])
                        /\ heap'[ret'.tok].kind = "ffitok"
                        /\ heap'[ret'.tok].a = 0
       /\ \A i \in NeverTokens' : ~should_stop(i)' /\ check(i)' = "Ok"]_vars

\* C16 witness: is_cancelled was called with a null token while the live source
\* is cancelled and a token that holds no shared state exists.
C16_Witness ==
    /\ ret.fn = "enough_token_is_cancelled" /\ ret.arg = "null" /\ ret.val = "false"
    /\ source = "live" /\ state.cancelled
    /\ NeverTokens # {}

\* The results collected so far
Successes == {i \in Items : loop.item[i] = "Ok"}
Cancelleds == {i \in Items : loop.item[i] = "Cancelled"}

\* Every item has returned
LoopDone == \A i \in Items : loop.item[i] \notin {"todo", "taken"}

\* C17: when the loop has ended and cancel() was called while it was running,
\* every item is a success or a Cancelled error, at least one item succeeded and
\* at least one item observed Cancelled.
C17_LoopSeesCancel ==
    (LoopDone /\ loop.midrun)
        => /\ Cardinality(Successes) + Cardinality(Cancelleds) = MaxItems
           /\ Cardinality(Successes) >= 1
           /\ Cardinality(Cancelleds) >= 1

\* C18: once cancel() has been called on a flag, a thread that polls
\* should_stop() on it eventually observes true and leaves its loop, with the
\* relaxed ordering as with release/acquire.
C18_PollerLeaves ==
    \A t \in Threads :
        (mem.ncall > 0 /\ view[t].pc = "polling") ~> (view[t].pc = "exited")

\* C18 witness: a thread has left its polling loop on a relaxed flag.
C18_Witness ==
    /\ mem.ord = "Relaxed"
    /\ \E t \in Threads : view[t].pc = "exited" /\ view[t].f > 0

\* C19: a flag changes only in a step that is a cancel() on its owner (a Stopper,
\* a tree node, the C source): constructing, cloning, checking or destroying a
\* token changes no flag, and the token types hold no flag of their own.
C19_OnlyCancelWrites ==
    [][/\ \A i \in Toks : heap'[i].flag # heap[i].flag
             => /\ heap[i].kind \in {"flag", "tree"}
                /\ heap'[i].flag
                /\ Cancel
       /\ (source # "none" /\ state'.cancelled # state.cancelled)
             => /\ state'.cancelled
                /\ enough_cancellation_cancel("source")]_vars

\* C19 witness: a token of the live, uncancelled C source was created and then
\* destroyed, and the source is still not cancelled.
C19_Witness ==
    /\ ret.fn = "enough_token_destroy" /\ ret.arg = "token"
    /\ heap[ret.tok].a = 1 /\ ret.tok \in dropped
    /\ source = "live" /\ ~state.cancelled

\* C20: Or(a, b).should_stop() is a.should_stop() OR b.should_stop(), and for any
\* three tokens Or(Or(a, b), c) and Or(a, Or(b, c)) agree on should_stop().
C20_OrAssociative ==
    /\ \A t \in Toks : KindIs(t, "or")
          => should_stop(t) = (should_stop(heap[t].a) \/ should_stop(heap[t].b))
    /\ LET answers == {<<ShouldStop(i, Atomic, <<>>), should_stop(i)>> : i \in Composable}
       IN  \A a, b, c \in answers :
               LET left == OrStop_should_stop(OrStop_should_stop(a[1], b[1]), c[1]).r
                   right == OrStop_should_stop(a[1], OrStop_should_stop(b[1], c[1])).r
               IN  /\ left = right
                   /\ (left = "Stop") = (a[2] \/ b[2] \/ c[2])

\* C20 witness: an Or whose first operand is not stopped and whose second is,
\* beside a third token that is not stopped.
C20_Witness ==
    \E t \in Toks, c \in Composable :
        /\ KindIs(t, "or")
        /\ ~should_stop(heap[t].a) /\ should_stop(heap[t].b) /\ should_stop(t)
        /\ c \notin {t, heap[t].a, heap[t].b} /\ ~should_stop(c)

\* The sources above a flat child, by construction: the source of the token it was
\* built on, or the child it was built from and that one's ancestors
RECURSIVE ChildAncestors(_)
ChildAncestors(c) ==
    IF ~KindIs(c, "child") THEN {}
    ELSE LET p == heap[c].a
         IN  IF KindIs(p, "ctok")
             THEN (IF heap[p].a = 0 THEN {} ELSE {heap[p].a})
             ELSE {p} \cup ChildAncestors(p)

\* A flat child that exists and whose ancestors all exist
Sound(c) == KindIs(c, "child") /\ Live(c) /\ ChildAncestors(c) \cap gone = {}

\* C21: is_self_cancelled() of a child is the child's own flag, whatever its
\* ancestors' flags are; a child whose own flag is unset and one of whose
\* ancestors is cancelled reports is_cancelled() = true and
\* is_self_cancelled() = false.
C21_SelfCancelled ==
    \A c \in Toks : Sound(c) =>
        /\ ChildCancellationSource_is_self_cancelled(c) = heap[c].flag
        /\ (~heap[c].flag /\ \E p \in ChildAncestors(c) : heap[p].flag)
              => Outcomes(c) = {TRUE} /\ ~ChildCancellationSource_is_self_cancelled(c)

\* C21 witness: a grandchild whose own flag and parent's flag are unset and whose
\* grandparent source is cancelled
C21_Witness ==
    \E c \in Toks :
        /\ Sound(c) /\ KindIs(heap[c].a, "child")
        /\ ~heap[c].flag /\ ~heap[heap[c].a].flag
        /\ \E p \in ChildAncestors(c) : heap[p].flag
        /\ should_stop(c) /\ ~ChildCancellationSource_is_self_cancelled(c)

\* C22: as long as a tree node exists, every ancestor node whose flag it reads
\* still exists, also after the owner has dropped or moved that ancestor, so
\* that is_cancelled() on a node that exists never makes an undefined read.
\* (Stated for the ancestors that are tree nodes themselves; the source at the
\* root is left out.)
C22_AncestorsOutlive ==
    \A c \in Toks : (KindIs(c, "child") /\ Live(c)) =>
        \A k \in DOMAIN heap[c].flags :
            KindIs(heap[c].flags[k], "child") =>
                /\ heap[c].flags[k] \notin gone
                /\ (gone \cap {i \in Toks : heap[i].kind = "flag"} = {}
                      => ShouldStop(c, Atomic, <<>>).r # "UB")

\* The deadline of token t, if it has one, has passed
Expired(t) == heap[t].kind = "ctok" /\ heap[t].dl # NoDeadline /\ now >= heap[t].dl

\* C23: a reset() of a cancelled source leaves is_cancelled() false and every token
\* of the source not stopped again (but for a token whose own deadline has
\* passed), and a token taken while the flag is unset starts not stopped.  That a
\* reader can see stopped and then not stopped is the witness.
C23_ResetClears ==
    [][/\ (heap[1].flag /\ CancellationSource_reset(1)) =>
              /\ ~heap'[1].flag
              /\ \A t \in TokensOf(1) : should_stop(t)' = Expired(t)'
       /\ (~heap[1].flag /\ CancellationSource_token(1, 1 + MaxChild)) =>
              \A n \in 1..(1 + MaxChild) : n = Len(heap) + 1 => ~should_stop(n)']_vars

\* C23 witness: the source was cancelled and reset, and a reader of one of its
\* tokens has seen it stopped and afterwards not stopped
C23_Witness ==
    \E t \in seen.back :
        KindIs(t, "ctok") /\ heap[t].a = 1 /\ ~heap[1].flag /\ ~should_stop(t)

\* C24: reset() on a child stores false into the child's own flag and changes
\* nothing else, no ancestor's flag in particular; afterwards the child reports
\* is_cancelled() = true if one of its ancestors is cancelled and false if none is.
C24_ChildResetOwnFlagOnly ==
    [][\A c \in Toks : (KindIs(c, "child") /\ ChildCancellationSource_reset(c)) =>
          /\ ~heap'[c].flag
          /\ \A j \in Toks \ {c} : heap'[j] = heap[j]
          /\ Sound(c) => Outcomes(c)' = {\E p \in ChildAncestors(c) : heap[p].flag}]_vars

\* C24 witness: a child that was reset, whose own flag is unset and whose ancestor
\* is cancelled, reports cancelled
C24_Witness ==
    \E c \in resets :
        /\ Sound(c) /\ ~heap[c].flag
        /\ \E p \in ChildAncestors(c) : heap[p].flag
        /\ should_stop(c)

\* C25: every clone of a Stopper, and every clone and token of an ArcStop, that
\* its owner still holds reads the one flag the first value was made with, which
\* stays allocated while any of them is held, the first value dropped or not;
\* after a cancel() through any of them every one held reports stopped, and so
\* does every one made later.
C25_SharedFlag ==
    /\ [](\A h \in Handles : Held(h) =>
             /\ handles[h].to = 1
             /\ ~Freed(1)
             /\ Shared_should_stop(h) = Bool(heap[1].flag)
             /\ handles[h].born => Shared_should_stop(h) = "true")
    /\ [][\A h \in Handles : Shared_cancel(h) =>
             \A g \in Handles : handles'[g].live => Shared_should_stop(g)' = "true"]_vars

\* C25 witness: the first value is dropped, the flag was cancelled through a
\* clone, and a token made after the cancel is held and reports stopped
C25_Witness ==
    /\ ~handles[1].live
    /\ \E g \in Handles :
          /\ Held(g) /\ handles[g].kind = "ArcToken" /\ handles[g].born
          /\ Shared_should_stop(g) = "true"
    /\ \E g \in Handles : handles[g].from # 0 /\ handles[g].kind = "ArcStop"

\* C26: a source is cancelled exactly when a guard made of it has been dropped
\* while armed, at the end of its scope or on an early return: a guard that is
\* still held has cancelled nothing, a disarmed guard never cancels, and a guard
\* of the child cancels the child and not the parent.
C26_GuardCancelsOnDrop ==
    /\ \A s \in Toks :
          heap[s].flag <=> \E g \in Guards : guards[g].src = s /\ guards[g].how \in ExitPaths
    /\ should_stop(1) <=> \E g \in Guards : guards[g].src = 1 /\ guards[g].how \in ExitPaths
    /\ \A g \in Guards : CancelGuard_is_armed(g) <=> ~guards[g].dropped

\* C26 witness: a guard of the child was dropped on an early return and the child
\* is cancelled, the parent is not; another guard was disarmed and one of the
\* parent is still held
C26_Witness ==
    /\ \E g \in Guards : guards[g].src = 2 /\ guards[g].how = "error return"
    /\ \E g \in Guards : guards[g].how = "disarm"
    /\ \E g \in Guards : guards[g].src = 1 /\ CancelGuard_is_armed(g)
    /\ should_stop(2) /\ ~should_stop(1)

\* C27: the strong count of the shared FFI state is the number of source and
\* token handles that have not been destroyed, whatever views exist: making,
\* copying and dropping a view leaves the state as it was, and the state is
\* freed once the source and every token of it are destroyed, live views or not.
StateOwners ==
    (IF source = "live" THEN 1 ELSE 0)
    + Cardinality({t \in Toks : KindIs(t, "ffitok") /\ heap[t].a = 1 /\ t \notin dropped})

C27_ViewsNotCounted ==
    /\ [](/\ source # "none" => state.strong = StateOwners
          /\ source # "none" => (state.alloc = "freed" <=> StateOwners = 0))
    /\ [][(views' # views) => UNCHANGED <<source, state, dropped>>]_vars

\* C27 witness: the state has been freed while a view of one of its tokens, and a
\* copy of that view, are still in scope
C27_Witness ==
    /\ state.alloc = "freed"
    /\ \E v, w \in Views :
          /\ v # w
          /\ views[v].live /\ views[w].live
          /\ views[v].ptr = views[w].ptr
          /\ views[v].ptr # 0
          /\ heap[views[v].ptr].a = 1
    /\ \E t \in Toks : KindIs(t, "ffitok") /\ heap[t].a = 1

C29_FlatEqualsRecursive ==
    \A c \in Toks : KindIs(c, "child") => Outcomes(c) = {should_stop(Twin(c))}

\* A step in which thread t returns from CallbackCancellation::cancel
CancelReturns(t) == thr[t].pc = "swapped" /\ thr'[t].pc = "idle"

\* C30 as stated: whenever a cancel() call on the callback variant returns, the
\* callback has run, for the callers that lost the race too.
C30_CallbackDoneOnReturn ==
    [][\A t \in Threads : CancelReturns(t) => fired' = 1]_vars

\* C30: when cancel() returns the flag is set; the caller whose swap found the
\* flag unset returns after it has run the callback itself, and a caller whose
\* swap found it set returns without running the callback or waiting for it.
C30_CallbackDoneForWinner ==
    [][\A t \in Threads : CancelReturns(t) =>
          /\ heap'[thr[t].tok].flag
          /\ ~thr[t].old => fired' = 1
          /\ thr[t].old => fired' = fired]_vars

\* C30 witness: two cancel() calls have been made, one has returned and the
\* other, whose swap found the flag unset, has not run the callback yet
C30_Witness ==
    \E t, u \in Threads :
        /\ t # u
        /\ ncancel[1] >= 2
        /\ thr[t].pc = "idle"
        /\ thr[u].pc = "swapped" /\ ~thr[u].old
        /\ fired = 0

\* C31: the strong count of the FFI state is the number of live handles that
\* refer to it, the source handle and every token created from a non-null source,
\* never tokens holding none: a token creation adds one for a token of the source
\* and nothing for a never token, a destroy removes one, no other call changes
\* the count, and the state is freed once no handle is left.
C31_StrongCountIsHandles ==
    /\ [](source # "none" =>
             /\ state.strong = StateOwners
             /\ (StateOwners = 0) = (state.alloc = "freed")
             /\ (StateOwners > 0) = (state.alloc = "live"))
    /\ [][LET made == Len(heap') = Len(heap) + 1 /\ heap'[Len(heap')].kind = "ffitok"
              gone_tok == dropped' \ dropped
              held(t) == IF heap[t].a = 1 THEN 1 ELSE 0
          IN  /\ made => state'.strong = state.strong
                           + (IF heap'[Len(heap')].a = 1 THEN 1 ELSE 0)
              /\ \A t \in gone_tok : state'.strong = state.strong - held(t)
              /\ (source = "live" /\ source' = "destroyed") => state'.strong = state.strong - 1
              /\ (source = "live" /\ ~made /\ gone_tok = {} /\ source' = source)
                    => state'.strong = state.strong]_vars

\* C31 witness: the source and the token created from it have been destroyed, a
\* never token is still live, and the state is freed with count zero
C31_Witness ==
    /\ source = "destroyed"
    /\ \E t \in Toks : KindIs(t, "ffitok") /\ heap[t].a = 0 /\ t \notin dropped
    /\ \E t \in dropped : heap[t].a = 1
    /\ state.strong = 0 /\ state.alloc = "freed"

\* C32: evaluated in the same state, check().is_err() equals should_stop() for
\* every token: flags, Or, timeout wrappers, deadline tokens, tree nodes, FFI
\* tokens, and the views of FFI tokens that have not been destroyed.
C32_CheckAgreesWithShouldStop ==
    /\ \A i \in Toks : i \notin dropped => (check(i) # "Ok") = should_stop(i)
    /\ \A v \in Views : (views[v].live /\ views[v].ptr \notin dropped)
          => (FfiCancellationTokenView_check(v) # "Ok") = View_should_stop(v)

\* C32 witness: a tree node under a timeout wrapper that has timed out answers
\* TimedOut and true, while the flag below the wrapper answers Ok and false
C32_Witness ==
    \E n \in Toks :
        /\ KindIs(n, "tree") /\ KindIs(heap[n].a, "timeout")
        /\ check(n) = "TimedOut" /\ should_stop(n)
        /\ check(heap[heap[n].a].a) = "Ok" /\ ~should_stop(heap[heap[n].a].a)

\* C32 witness on the C side: a view of a token of a cancelled source answers
\* Cancelled and true
C32_ViewWitness ==
    \E v \in Views :
        /\ views[v].live /\ views[v].ptr # 0 /\ views[v].ptr \notin dropped
        /\ FfiCancellationTokenView_check(v) = "Cancelled" /\ View_should_stop(v)

\* C33: check() on a node returns Cancelled whenever the node's own flag is set,
\* whatever its parent answers; with the own flag unset a TreeStopper and a
\* recursive child return what the parent's check() returns, Ok for a root, and
\* a child's token that was given a deadline of its own returns the parent's
\* error if there is one and else TimedOut once that deadline has passed.
C33_NodeCheck ==
    /\ \A n \in Toks : KindIs(n, "tree") =>
          check(n) = IF heap[n].flag THEN "Cancelled"
                     ELSE IF heap[n].a = 0 THEN "Ok" ELSE check(heap[n].a)
    /\ \A c \in Toks : KindIs(c, "rchild") =>
          check(c) = IF heap[c].flag THEN "Cancelled" ELSE check(heap[c].a)
    /\ \A t \in Toks : KindIs(t, "rtok") =>
          check(t) = IF check(heap[t].a) # "Ok" THEN check(heap[t].a)
                     ELSE IF now >= heap[t].dl THEN "TimedOut" ELSE "Ok"

\* C33 witness: a node under a timed-out parent answers Cancelled because its own
\* flag is set, and another node under the same parent answers TimedOut
C33_Witness ==
    \E n, k \in Toks :
        /\ KindIs(n, "tree") /\ KindIs(k, "tree")
        /\ heap[n].a = heap[k].a /\ heap[n].a # 0
        /\ check(heap[n].a) = "TimedOut"
        /\ heap[n].flag /\ check(n) = "Cancelled"
        /\ ~heap[k].flag /\ check(k) = "TimedOut"

\* C34: for any three tokens, Or(Or(a, b), c).check() and Or(a, Or(b, c)).check()
\* return the same result: Ok when none of the three is stopped, else the reason
\* of the leftmost stopped operand; and an Or built on an Or returns it too.
C34_OrCheckAssociative ==
    /\ LET answers == {Check(i, Atomic, <<>>) : i \in Composable}
       IN  \A a, b, c \in answers :
               LET left == OrStop_check(OrStop_check(a, b), c).r
                   right == OrStop_check(a, OrStop_check(b, c)).r
               IN  /\ left = right
                   /\ left = IF a.r # "Ok" THEN a.r ELSE IF b.r # "Ok" THEN b.r ELSE c.r
    /\ \A t \in Toks : (KindIs(t, "or") /\ KindIs(heap[t].a, "or")) =>
          LET a == check(heap[heap[t].a].a)
              b == check(heap[heap[t].a].b)
              c == check(heap[t].b)
          IN  check(t) = IF a # "Ok" THEN a ELSE IF b # "Ok" THEN b ELSE c

\* C34 witness: Never is not stopped, a second token has timed out and a third is
\* cancelled, and both groupings of the three in that order return TimedOut
C34_Witness ==
    \E j, k \in Toks :
        /\ check(0) = "Ok" /\ check(j) = "TimedOut" /\ check(k) = "Cancelled"
        /\ LET a == Check(0, Atomic, <<>>)
               b == Check(j, Atomic, <<>>)
               c == Check(k, Atomic, <<>>)
           IN  /\ OrStop_check(OrStop_check(a, b), c).r = "TimedOut"
               /\ OrStop_check(a, OrStop_check(b, c)).r = "TimedOut"

\* C35: for a timeout wrapper whose inner token is not stopped, remaining() is
\* zero exactly when the clock has reached or passed the deadline, which is
\* exactly when check() returns TimedOut and should_stop() is true; at the
\* instant of the deadline the wrapper is timed out already.
C35_RemainingZeroIffTimedOut ==
    \A t \in Toks : (KindIs(t, "timeout") /\ check(heap[t].a) = "Ok") =>
        /\ (WithTimeout_remaining(t) = 0) = (now >= WithTimeout_deadline(t))
        /\ (now >= WithTimeout_deadline(t)) = (check(t) = "TimedOut")
        /\ check(t) \in {"Ok", "TimedOut"}
        /\ should_stop(t) = (check(t) = "TimedOut")
        /\ WithTimeout_remaining(t) > 0 => WithTimeout_remaining(t) = WithTimeout_deadline(t) - now

\* C35 witness: the clock stands at the deadline of a wrapper made before that
\* instant, whose inner token is not stopped: nothing remains and it has timed out
C35_Witness ==
    \E t \in Toks :
        /\ KindIs(t, "timeout") /\ check(heap[t].a) = "Ok"
        /\ now = WithTimeout_deadline(t) /\ now > 0
        /\ WithTimeout_remaining(t) = 0 /\ check(t) = "TimedOut"

\* C36: a decoder with check frequency k returns the stop error at the first
\* check it performs once its token is stopped and pushes nothing more, so it
\* processes at most k chunks while the token is stopped; on non-empty input
\* with a token stopped on entry it processes no chunk and does not complete;
\* and once a check has failed its result is the stop error, never Ok.
C36_DecoderStopsWithinK ==
    /\ [](/\ dec.late <= dec.k
          /\ (dec.entry /\ dec.n > 0) => (dec.out = 0 /\ dec.res # "Ok")
          /\ dec.failed => dec.res = "Stopped")
    /\ [][(/\ dec.pc = "loop" /\ dec.i < dec.n /\ dec.k > 0
           /\ dec.i % dec.k = 0
           /\ should_stop(dec.tok)
           /\ dec' # dec)
          => (dec'.res = "Stopped" /\ dec'.pc = "done" /\ dec'.out = dec.out)]_vars

\* A decoder with k = 2 was cancelled just after a passing check, processed two
\* more chunks and then returned the stop error
C36_Witness ==
    /\ dec.pc = "done" /\ dec.res = "Stopped"
    /\ dec.k = 2 /\ dec.late = 2 /\ ~dec.entry

\* The number of parent links from entry n up to the root of its chain
Depth(n) == Cardinality(TreeChain(n)) - 1

\* C37: the parent link of a node is set when the node is constructed, to an
\* entry that existed before it, and no step changes it, so every parent chain
\* is finite and acyclic; an uninterrupted check() of a node at depth d makes
\* at most d + 1 loads, whatever the flags hold, and it can always run: no
\* state of the other callers disables it.
C37_ParentChainFixed ==
    /\ [](\A n \in Toks :
            /\ heap[n].a < n
            /\ Len(Loads(n, {})) <= Depth(n) + 1
            /\ ENABLED Poll(n))
    /\ [][\A n \in Toks : heap'[n].a = heap[n].a /\ heap'[n].kind = heap[n].kind]_vars

\* A node at depth 3 (three nodes under the first Stopper) whose check reads all
\* four flags; a cancelled ancestor cuts the walk short
C37_Witness ==
    \E n \in Toks :
        /\ KindIs(n, "tree") /\ Depth(n) = 3
        /\ Len(Loads(n, {})) = 4

\* The Arcs that callers hold
CallerHeld == {h \in Handles : Caller(h)}

\* C38: cancel_after returns at once and leaves the flag as it was; from then
\* on, under fair scheduling, the source becomes cancelled, also when every
\* caller has dropped its Arc (the spawned thread holds one, so the source is
\* not freed before the thread has cancelled it); and the flag is set either by
\* a spawned thread whose duration has passed since its call or by a caller's
\* own cancel().
C38_CancelAfter ==
    /\ [](\A i \in Timers :
            timers[i].pc = "sleeping" => ~Freed(handles[timers[i].h].to))
    /\ [][/\ Len(timers') > Len(timers) => (heap' = heap /\ now' = now)
          /\ (~heap[1].flag /\ heap'[1].flag)
                => \/ timers' = timers
                   \/ \E i \in Timers :
                         /\ timers'[i].pc # timers[i].pc
                         /\ now >= timers[i].at + timers[i].d]_vars
    /\ \A i \in 1..MaxTimers :
          (i \in Timers /\ timers[i].pc = "sleeping") ~> heap[1].flag

\* A thread spawned with a duration of one tick has cancelled a source that was
\* not cancelled, after every caller had dropped its Arc
C38_Witness ==
    \E i \in Timers :
        /\ timers[i].pc = "cancelled" /\ ~timers[i].old
        /\ timers[i].d = 1
        /\ CallerHeld = {}
        /\ heap[1].flag

====
